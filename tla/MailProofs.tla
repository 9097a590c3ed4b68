---------------------------- MODULE MailProofs ----------------------------
(* Proofs about the components of Mail, for every value of the constants:   *)
(* admission, delivery permits, the file store, the lifecycle of processes,  *)
(* the SMTP server, routing, broadcast requests, sender domains and one      *)
(* delivery operation.  A component's invariant is proved for its own next-state      *)
(* relation; a step of another component leaves it alone, so the properties  *)
(* hold of their composition.                                              *)
EXTENDS Mail, FiniteSetTheorems, TLAPS

-----------------------------------------------------------------------------
(* Delivery permits.                                                        *)

(* The sorted sets are finite, and within the limits as far as they are     *)
(* alive; every claim in progress has its own token.                        *)
PermitTypes ==
  /\ pNow \in Nat /\ tokens \in Nat
  /\ DOMAIN set = P!Keys /\ DOMAIN claim = Workers
  /\ \A k \in P!Keys : /\ IsFiniteSet(DOMAIN set[k])
                       /\ \A h \in DOMAIN set[k] : set[k][h] \in Int
  /\ \A w \in Workers :
       claim[w] = P!Idle \/ claim[w] \in [pc: {"tenant", "dest", "send"}, job: Jobs, token: 1..tokens, until: Int]

TokensDiffer ==
  \A v, w \in Workers : v # w /\ claim[v].pc # "idle" /\ claim[w].pc # "idle" => claim[v].token # claim[w].token

LimitsKept == \A k \in P!Keys : Cardinality(P!Live(k)) <= P!Limit(k)

(* A worker past its first permit holds it until the time it knows, and one  *)
(* that sends holds both until then.                                        *)
Holds(w, k) ==
  P!holder(claim[w]) \in DOMAIN set[k] /\ set[k][P!holder(claim[w])] >= claim[w].until

PermitsHeld ==
  \A w \in Workers :
    /\ claim[w].pc \in {"dest", "send"} =>
         claim[w].until > pNow /\ claim[w].until <= pNow + TTL /\ Holds(w, P!Tenant)
    /\ claim[w].pc = "send" => Holds(w, Destination[claim[w].job])

(* The counting of the module is the one of FiniteSetTheorems. *)
LEMMA PermitCount == \A S : P!Cardinality(S) = Cardinality(S)
  BY DEF P!Cardinality, Cardinality

PermitInv == PermitTypes /\ TokensDiffer /\ LimitsKept /\ PermitsHeld

(* The invariant holds of the empty sorted sets.                            *)
LEMMA PermitInit == ASSUME P!PermitsAssumption PROVE P!Init => PermitInv
  <1> SUFFICES ASSUME P!Init PROVE PermitInv
    OBVIOUS
  <1>1. PermitTypes
    BY FS_EmptySet DEF P!Init, PermitTypes
  <1>2. TokensDiffer /\ PermitsHeld
    BY DEF P!Init, TokensDiffer, PermitsHeld, P!Idle
  <1>3. \A k \in P!Keys : P!Live(k) = {}
    BY DEF P!Init, P!Live
  <1>4. LimitsKept
    BY <1>3, FS_EmptySet DEF LimitsKept, P!Limit, P!PermitsAssumption
  <1>5. QED
    BY <1>1, <1>2, <1>4 DEF PermitInv

(* A set whose live permits only lapse stays within its limit.              *)
LEMMA LiveShrinks ==
  ASSUME P!PermitsAssumption, PermitInv, NEW k \in P!Keys, IsFiniteSet(P!Live(k)), P!Live(k)' \subseteq P!Live(k)
  PROVE  Cardinality(P!Live(k)') <= P!Limit(k)
  <1>1. Cardinality(P!Live(k)') <= Cardinality(P!Live(k)) /\ Cardinality(P!Live(k)') \in Nat /\ Cardinality(P!Live(k)) \in Nat
    BY FS_Subset, FS_CardinalityType
  <1>2. P!Limit(k) \in Nat
    BY DEF P!Limit, P!PermitsAssumption
  <1>3. QED
    BY <1>1, <1>2 DEF PermitInv, LimitsKept

(* How one call changes the sets: entries go, but no live one of another     *)
(* holder, and at most the caller's own comes, when the script grants it.    *)
Grows(k, h) ==
  \A j \in P!Keys : \A x \in DOMAIN set'[j] :
    \/ x \in DOMAIN set[j] /\ set'[j][x] = set[j][x]
    \/ j = k /\ x = h /\ P!AcquireGrants(k, h) /\ set'[j][x] = pNow + TTL
KeepsOthers(h) ==
  \A j \in P!Keys : \A x \in P!Live(j) \ {h} : x \in DOMAIN set'[j] /\ set'[j][x] = set[j][x]
ScriptStep(k, h) == DOMAIN set' = P!Keys /\ pNow' = pNow /\ Grows(k, h) /\ KeepsOthers(h)

(* The Lua script adds a permit only below the limit, after its own sweep.  *)
LEMMA ScriptKeepsLimits ==
  ASSUME P!PermitsAssumption, PermitInv, NEW k \in P!Keys, NEW h, ScriptStep(k, h)
  PROVE  /\ \A j \in P!Keys : /\ IsFiniteSet(DOMAIN set'[j])
                              /\ \A x \in DOMAIN set'[j] : set'[j][x] \in Int
         /\ LimitsKept'
  <1>1. ASSUME NEW j \in P!Keys PROVE IsFiniteSet(DOMAIN set'[j]) /\ \A x \in DOMAIN set'[j] : set'[j][x] \in Int
    <2>1. DOMAIN set'[j] \subseteq DOMAIN set[j] \cup {h}
      BY DEF ScriptStep, Grows
    <2>2. IsFiniteSet(DOMAIN set'[j])
      BY <2>1, FS_AddElement, FS_Subset DEF PermitInv, PermitTypes
    <2>3. QED
      BY <2>2 DEF ScriptStep, Grows, PermitInv, PermitTypes, P!PermitsAssumption
  <1>2. ASSUME NEW j \in P!Keys PROVE Cardinality(P!Live(j)') <= P!Limit(j)
    <2>1. IsFiniteSet(P!Live(j))
      BY FS_Subset DEF P!Live, PermitInv, PermitTypes
    <2>2. CASE P!Live(j)' \subseteq P!Live(j)
      BY <2>1, <2>2, LiveShrinks
    <2>3. CASE ~(P!Live(j)' \subseteq P!Live(j))
      <3>1. j = k /\ h \notin P!Live(k) /\ P!AcquireGrants(k, h) /\ P!Live(k)' \subseteq P!Live(k) \cup {h}
        BY <2>3 DEF ScriptStep, Grows, P!Live
      <3>2. Cardinality(P!Live(k) \cup {h}) = Cardinality(P!Live(k)) + 1 /\ IsFiniteSet(P!Live(k) \cup {h})
        BY <2>1, <3>1, FS_AddElement
      <3>3. Cardinality(P!Live(k)') <= Cardinality(P!Live(k)) + 1 /\ Cardinality(P!Live(k)') \in Nat
        BY <3>1, <3>2, FS_Subset, FS_CardinalityType
      <3>4. Cardinality(P!Live(k)) < P!Limit(k)
        BY <3>1, PermitCount DEF P!AcquireGrants
      <3>5. P!Limit(k) \in Nat /\ Cardinality(P!Live(k)) \in Nat
        BY <2>1, <3>1, FS_CardinalityType DEF P!Limit, P!PermitsAssumption
      <3>6. QED
        BY <3>1, <3>3, <3>4, <3>5
    <2>4. QED
      BY <2>2, <2>3
  <1>3. QED
    BY <1>1, <1>2 DEF LimitsKept, P!Limit, P!Keys, P!Tenant

(* The worker w makes a call and everyone else keeps what it holds. *)
LEMMA OthersKeepPermits ==
  ASSUME P!PermitsAssumption, PermitInv, NEW w \in Workers, NEW k \in P!Keys,
         claim[w].pc # "idle", ScriptStep(k, P!holder(claim[w])),
         NEW v \in Workers, v # w, claim'[v] = claim[v]
  PROVE  /\ claim'[v].pc \in {"dest", "send"} => claim'[v].until > pNow' /\ claim'[v].until <= pNow' + TTL /\ Holds(v, P!Tenant)'
         /\ claim'[v].pc = "send" => Holds(v, Destination[claim[v].job])'
  <1> DEFINE h == P!holder(claim[v])
  <1>1. claim[v].pc # "idle" => h # P!holder(claim[w])
    BY DEF PermitInv, TokensDiffer, P!holder
  <1>2. claim[v].pc \in {"dest", "send"} =>
          /\ claim[v].until > pNow /\ claim[v].until <= pNow + TTL
          /\ pNow \in Int /\ claim[v].until \in Int
    BY DEF PermitInv, PermitsHeld, PermitTypes, P!Idle
  <1>3. ASSUME NEW j \in P!Keys, claim[v].pc \in {"dest", "send"}, Holds(v, j) PROVE Holds(v, j)'
    <2>1. h \in P!Live(j)
      BY <1>2, <1>3 DEF Holds, P!Live, PermitInv, PermitTypes
    <2>2. QED
      BY <1>1, <1>3, <2>1 DEF Holds, ScriptStep, KeepsOthers
  <1>4. claim[v].pc = "send" => Destination[claim[v].job] \in P!Keys
    BY DEF PermitInv, PermitTypes, P!Idle, P!PermitsAssumption, P!Keys
  <1>5. QED
    BY <1>2, <1>3, <1>4 DEF PermitInv, PermitsHeld, ScriptStep, P!Keys, P!Tenant

(* t is s with at most the member h taken out of its sets. *)
Thinned(s, t, h) ==
  /\ DOMAIN t = P!Keys
  /\ \A j \in P!Keys :
       /\ DOMAIN t[j] \subseteq DOMAIN s[j]
       /\ DOMAIN s[j] \ {h} \subseteq DOMAIN t[j]
       /\ \A x \in DOMAIN t[j] : t[j][x] = s[j][x]

(* Releasing removes one holder's permit from one set.                      *)
LEMMA ReleaseTakesOne ==
  ASSUME NEW s, NEW k \in P!Keys, NEW h, DOMAIN s = P!Keys
  PROVE  Thinned(s, P!Release(s, k, h), h)
  BY DEF P!Release, Thinned

(* Two removals of the same holder's permits are one.                       *)
LEMMA ThinnedTwice ==
  ASSUME NEW s, NEW t, NEW u, NEW h, Thinned(s, t, h), Thinned(t, u, h)
  PROVE  Thinned(s, u, h)
  <1>1. DOMAIN u = P!Keys
    BY DEF Thinned
  <1>2. ASSUME NEW j \in P!Keys
        PROVE  /\ DOMAIN u[j] \subseteq DOMAIN s[j]
               /\ DOMAIN s[j] \ {h} \subseteq DOMAIN u[j]
               /\ \A x \in DOMAIN u[j] : u[j][x] = s[j][x]
    BY DEF Thinned
  <1>3. QED
    BY <1>1, <1>2 DEF Thinned

(* A worker that made its call is done or has moved on with its permits. *)
MovesOn(w) ==
  /\ claim'[w] \in [pc: {"dest", "send"}, job: Jobs, token: 1..tokens, until: Int]
  /\ claim'[w].job = claim[w].job /\ claim'[w].token = claim[w].token
  /\ claim'[w].until > pNow /\ claim'[w].until <= pNow + TTL /\ Holds(w, P!Tenant)'
  /\ claim'[w].pc = "send" => Holds(w, Destination[claim[w].job])'

(* A worker's step touches one set and its own claim.                       *)
LEMMA WorkerMoves ==
  ASSUME P!PermitsAssumption, PermitInv, NEW w \in Workers, NEW k \in P!Keys,
         claim[w].pc # "idle", ScriptStep(k, P!holder(claim[w])), tokens' = tokens,
         DOMAIN claim' = Workers, \A v \in Workers \ {w} : claim'[v] = claim[v],
         claim'[w] = P!Idle \/ MovesOn(w)
  PROVE  PermitInv'
  <1> USE DEF P!Tenant, P!Keys
  <1>1. PermitTypes'
    <2>1. pNow' \in Nat /\ tokens' \in Nat /\ DOMAIN set' = P!Keys /\ DOMAIN claim' = Workers
      BY DEF ScriptStep, PermitInv, PermitTypes
    <2>2. \A v \in Workers : claim'[v] = P!Idle
            \/ claim'[v] \in [pc: {"tenant", "dest", "send"}, job: Jobs, token: 1..tokens, until: Int]
      BY DEF MovesOn, PermitInv, PermitTypes
    <2>3. QED
      BY <2>1, <2>2, ScriptKeepsLimits DEF PermitTypes, P!Idle
  <1>2. TokensDiffer'
    BY DEF PermitInv, TokensDiffer, MovesOn, P!Idle
  <1>3. LimitsKept'
    BY ScriptKeepsLimits
  <1>4. PermitsHeld'
    <2>1. ASSUME NEW v \in Workers, v # w
          PROVE  /\ claim'[v].pc \in {"dest", "send"} => claim'[v].until > pNow' /\ claim'[v].until <= pNow' + TTL /\ Holds(v, P!Tenant)'
                 /\ claim'[v].pc = "send" => Holds(v, Destination[claim[v].job])'
      BY <2>1, OthersKeepPermits
    <2>2. /\ claim'[w].pc \in {"dest", "send"} => claim'[w].until > pNow' /\ claim'[w].until <= pNow' + TTL /\ Holds(w, P!Tenant)'
          /\ claim'[w].pc = "send" => Holds(w, Destination[claim[w].job])'
      BY DEF MovesOn, P!Idle, ScriptStep
    <2>3. QED
      BY <2>1, <2>2 DEF PermitsHeld
  <1>5. QED
    BY <1>1, <1>2, <1>3, <1>4 DEF PermitInv

(* Every step of the workers and of the clock keeps the invariant.          *)
LEMMA PermitStep == ASSUME P!PermitsAssumption PROVE PermitInv /\ [P!Next]_P!vars => PermitInv'
  <1> SUFFICES ASSUME PermitInv, [P!Next]_P!vars PROVE PermitInv'
    OBVIOUS
  <1> USE DEF P!Tenant, P!Keys
  <1>1. CASE UNCHANGED P!vars
    BY <1>1 DEF P!vars, PermitInv, PermitTypes, TokensDiffer, LimitsKept, PermitsHeld, Holds, P!Live,
                P!Limit, P!holder
  <1>2. CASE P!Tick
    <2>1. PermitTypes' /\ TokensDiffer' /\ PermitsHeld'
      <3>1. pNow \in Nat /\ pNow' = pNow + 1 /\ UNCHANGED <<set, claim, tokens>>
        BY <1>2 DEF P!Tick, PermitInv, PermitTypes
      <3>2. PermitTypes'
        BY <3>1 DEF PermitInv, PermitTypes
      <3>3. TokensDiffer'
        BY <3>1 DEF PermitInv, TokensDiffer
      <3>4. ASSUME NEW w \in Workers, claim[w].pc \in {"dest", "send"}
            PROVE  claim[w].until > pNow + 1 /\ claim[w].until <= pNow + 1 + TTL
        <4>1. claim[w].until \in Int
          BY <3>4 DEF PermitInv, PermitTypes, P!Idle
        <4>2. claim[w].until > pNow + 1
          BY <1>2, <3>4 DEF P!Tick
        <4>3. claim[w].until <= pNow + TTL
          BY <3>4 DEF PermitInv, PermitsHeld
        <4>4. QED
          BY <3>1, <4>1, <4>2, <4>3 DEF P!PermitsAssumption
      <3>5. \A w, k : Holds(w, k)' <=> Holds(w, k)
        BY <3>1 DEF Holds, P!holder
      <3>6. PermitsHeld'
        BY <3>1, <3>4, <3>5 DEF PermitInv, PermitsHeld
      <3>7. QED
        BY <3>2, <3>3, <3>6
    <2>2. ASSUME NEW k \in P!Keys PROVE Cardinality(P!Live(k)') <= P!Limit(k)
      <3>1. P!Live(k)' \subseteq P!Live(k)
        BY <1>2 DEF P!Tick, P!Live, PermitInv, PermitTypes
      <3>2. IsFiniteSet(P!Live(k))
        BY FS_Subset DEF P!Live, PermitInv, PermitTypes
      <3>3. QED
        BY <3>1, <3>2, LiveShrinks
    <2>3. QED
      BY <2>1, <2>2 DEF PermitInv, LimitsKept, P!Limit
  <1>3. ASSUME NEW w \in Workers, P!Claim(w) PROVE PermitInv'
    <2>1. PICK j \in Jobs : claim' = [claim EXCEPT ![w] = [pc |-> "tenant", job |-> j, token |-> tokens + 1, until |-> 0]]
      BY <1>3 DEF P!Claim
    <2>2. /\ UNCHANGED <<pNow, set>> /\ tokens' = tokens + 1 /\ tokens \in Nat /\ DOMAIN claim' = Workers
          /\ claim'[w] = [pc |-> "tenant", job |-> j, token |-> tokens + 1, until |-> 0]
          /\ \A v \in Workers \ {w} : claim'[v] = claim[v]
      BY <1>3, <2>1 DEF P!Claim, PermitInv, PermitTypes
    <2>3. PermitTypes'
      <3>1. \A v \in Workers : claim'[v] = P!Idle
              \/ claim'[v] \in [pc: {"tenant", "dest", "send"}, job: Jobs, token: 1..tokens + 1, until: Int]
        BY <2>2 DEF PermitInv, PermitTypes
      <3>2. QED
        BY <2>2, <3>1 DEF PermitInv, PermitTypes, P!Idle
    <2>4. TokensDiffer'
      BY <2>2 DEF PermitInv, PermitTypes, TokensDiffer, P!Idle
    <2>5. LimitsKept'
      BY <2>2 DEF PermitInv, LimitsKept, P!Live, P!Limit
    <2>6. PermitsHeld'
      <3>1. ASSUME NEW v \in Workers, claim'[v].pc \in {"dest", "send"} PROVE claim'[v] = claim[v]
        BY <2>2, <3>1
      <3>2. QED
        BY <2>2, <3>1 DEF PermitInv, PermitsHeld, Holds, P!holder
    <2>7. QED
      BY <2>3, <2>4, <2>5, <2>6 DEF PermitInv
  <1>4. ASSUME NEW w \in Workers, P!AcquireTenant(w) PROVE PermitInv'
    <2> DEFINE h == P!holder(claim[w])
    <2>1. claim[w] \in [pc: {"tenant"}, job: Jobs, token: 1..tokens, until: Int]
      BY <1>4 DEF P!AcquireTenant, PermitInv, PermitTypes, P!Idle
    <2>2. ScriptStep(P!Tenant, h) /\ UNCHANGED tokens
      BY <1>4 DEF P!AcquireTenant, ScriptStep, Grows, KeepsOthers, P!Granted, P!Pruned, P!Live, PermitInv, PermitTypes
    <2>3. claim'[w] = P!Idle \/ MovesOn(w)
      BY <1>4, <2>1 DEF P!AcquireTenant, P!Done, P!Granted, MovesOn, Holds, P!holder, PermitInv, PermitTypes,
           P!PermitsAssumption
    <2>4. DOMAIN claim' = Workers /\ \A v \in Workers \ {w} : claim'[v] = claim[v]
      BY <1>4 DEF P!AcquireTenant, P!Done, PermitInv, PermitTypes
    <2>5. QED
      BY <2>1, <2>2, <2>3, <2>4, WorkerMoves
  <1>5. ASSUME NEW w \in Workers, P!AcquireDestination(w) PROVE PermitInv'
    <2> DEFINE h == P!holder(claim[w])
               d == Destination[claim[w].job]
    <2>1. claim[w] \in [pc: {"dest"}, job: Jobs, token: 1..tokens, until: Int] /\ d \in Domains
      BY <1>5 DEF P!AcquireDestination, PermitInv, PermitTypes, P!Idle, P!PermitsAssumption
    <2>2. ScriptStep(d, h) /\ UNCHANGED tokens
      <3>1. PICK s : /\ s = set \/ s = P!Pruned(d) \/ (P!AcquireGrants(d, h) /\ s = P!Granted(d, h))
                     /\ set' = s \/ set' = P!Release(s, P!Tenant, h)
        BY <1>5 DEF P!AcquireDestination
      <3>2. /\ DOMAIN s = P!Keys
            /\ \A j \in P!Keys : \A x \in DOMAIN s[j] :
                 \/ x \in DOMAIN set[j] /\ s[j][x] = set[j][x]
                 \/ j = d /\ x = h /\ P!AcquireGrants(d, h) /\ s[j][x] = pNow + TTL
            /\ \A j \in P!Keys : \A x \in P!Live(j) \ {h} : x \in DOMAIN s[j] /\ s[j][x] = set[j][x]
        BY <2>1, <3>1, SMTT(30) DEF P!Granted, P!Pruned, P!Live, PermitInv, PermitTypes
      <3>3. Thinned(s, P!Release(s, P!Tenant, h), h)
        BY <3>2, ReleaseTakesOne DEF P!Keys
      <3>4. QED
        BY <1>5, <3>1, <3>2, <3>3 DEF P!AcquireDestination, ScriptStep, Grows, KeepsOthers, Thinned
    <2>3. claim'[w] = P!Idle \/ MovesOn(w)
      <3>1. CASE P!AcquireGrants(d, h) /\ set' = P!Granted(d, h) /\ P!Goto(w, "send")
        <4>1. claim'[w] = [claim[w] EXCEPT !.pc = "send"] /\ claim[w].until > pNow /\ claim[w].until <= pNow + TTL
             /\ Holds(w, P!Tenant)
          BY <2>1, <3>1 DEF P!Goto, PermitInv, PermitTypes, PermitsHeld
        <4>2. Holds(w, P!Tenant)'
          BY <2>1, <3>1, <4>1 DEF P!Granted, Holds, P!holder, P!Live, PermitInv, PermitTypes, P!PermitsAssumption
        <4>3. QED
          BY <2>1, <3>1, <4>1, <4>2 DEF MovesOn, P!Granted, Holds, P!holder, PermitInv, PermitTypes
      <3>2. QED
        BY <1>5, <3>1 DEF P!AcquireDestination, P!Done, PermitInv, PermitTypes
    <2>4. DOMAIN claim' = Workers /\ \A v \in Workers \ {w} : claim'[v] = claim[v]
      BY <1>5 DEF P!AcquireDestination, P!Done, P!Goto, PermitInv, PermitTypes
    <2>5. QED
      BY <2>1, <2>2, <2>3, <2>4, WorkerMoves
  <1>6. ASSUME NEW w \in Workers, P!ReleasePermits(w) PROVE PermitInv'
    <2> DEFINE h == P!holder(claim[w])
               d == Destination[claim[w].job]
    <2>1. claim[w].pc # "idle" /\ d \in Domains
      BY <1>6 DEF P!ReleasePermits, PermitInv, PermitTypes, P!Idle, P!PermitsAssumption
    <2>2. ScriptStep(P!Tenant, h) /\ UNCHANGED tokens
      <3>1. \/ set' = set
            \/ set' = P!Release(set, P!Tenant, h)
            \/ set' = P!Release(set, d, h)
            \/ set' = P!Release(P!Release(set, P!Tenant, h), d, h)
        BY <1>6 DEF P!ReleasePermits
      <3>2. DOMAIN set = P!Keys /\ P!Tenant \in P!Keys /\ d \in P!Keys
        BY <2>1 DEF PermitInv, PermitTypes, P!Keys
      <3> HIDE DEF h, d
      <3>3. PICK s : s = P!Release(set, P!Tenant, h)
        OBVIOUS
      <3>4. Thinned(set, s, h)
        BY <3>2, <3>3, ReleaseTakesOne
      <3>5. Thinned(s, P!Release(s, d, h), h)
        <4>1. DOMAIN s = P!Keys
          BY <3>4 DEF Thinned
        <4>2. QED
          BY <3>2, <4>1, ReleaseTakesOne
      <3>6. Thinned(set, set, h) /\ Thinned(set, P!Release(set, d, h), h)
        BY <3>2, ReleaseTakesOne DEF Thinned
      <3>7. Thinned(set, set', h)
        BY <3>1, <3>3, <3>4, <3>5, <3>6, ThinnedTwice
      <3>8. QED
        BY <1>6, <3>7 DEF P!ReleasePermits, ScriptStep, Grows, KeepsOthers, P!Live, Thinned
    <2>3. claim'[w] = P!Idle /\ DOMAIN claim' = Workers /\ \A v \in Workers \ {w} : claim'[v] = claim[v]
      BY <1>6 DEF P!ReleasePermits, P!Done, PermitInv, PermitTypes
    <2>4. QED
      BY <2>1, <2>2, <2>3, WorkerMoves
  <1>7. ASSUME NEW w \in Workers, P!Crash(w) PROVE PermitInv'
    <2>1. ScriptStep(P!Tenant, P!holder(claim[w])) /\ UNCHANGED tokens
      BY <1>7 DEF P!Crash, ScriptStep, Grows, KeepsOthers, P!Live, PermitInv, PermitTypes
    <2>2. claim'[w] = P!Idle /\ DOMAIN claim' = Workers /\ \A v \in Workers \ {w} : claim'[v] = claim[v]
      BY <1>7 DEF P!Crash, P!Done, PermitInv, PermitTypes
    <2>3. QED
      BY <1>7, <2>1, <2>2, WorkerMoves DEF P!Crash
  <1>8. QED
    BY <1>1, <1>2, <1>3, <1>4, <1>5, <1>6, <1>7 DEF P!Next

(* The permits that let an attempt run are alive and belong to one worker. *)
LEMMA SendersHoldPermits ==
  ASSUME P!PermitsAssumption, PermitInv, NEW k \in P!Keys
  PROVE  Cardinality(P!Sending(k)) <= P!Limit(k)
  <1> DEFINE f == [w \in P!Sending(k) |-> P!holder(claim[w])]
  <1>1. IsFiniteSet(P!Live(k))
    BY FS_Subset DEF P!Live, PermitInv, PermitTypes
  <1>2. ASSUME NEW w \in P!Sending(k) PROVE P!holder(claim[w]) \in P!Live(k)
    <2>1. w \in Workers /\ claim[w].pc = "send" /\ Holds(w, k) /\ claim[w].until > pNow
      BY <1>2 DEF P!Sending, PermitInv, PermitsHeld, P!Tenant
    <2>2. claim[w].until \in Int /\ pNow \in Int
      BY <2>1 DEF PermitInv, PermitTypes, P!Idle
    <2>3. QED
      BY <2>1, <2>2 DEF Holds, P!Live, PermitInv, PermitTypes
  <1>3. f \in Injection(P!Sending(k), P!Live(k))
    <2>1. \A v, w \in P!Sending(k) : P!holder(claim[v]) = P!holder(claim[w]) => v = w
      BY DEF P!Sending, P!holder, PermitInv, TokensDiffer
    <2>2. QED
      BY <1>2, <2>1 DEF Injection, IsInjective
  <1>4. Cardinality(P!Sending(k)) <= Cardinality(P!Live(k)) /\ IsFiniteSet(P!Sending(k))
    BY <1>1, <1>3, FS_Injection DEF ExistsInjection
  <1>5. QED
    <2>1. Cardinality(P!Sending(k)) \in Nat /\ Cardinality(P!Live(k)) \in Nat /\ P!Limit(k) \in Nat
      BY <1>1, <1>4, FS_CardinalityType DEF P!Limit, P!PermitsAssumption
    <2>2. QED
      BY <1>4, <2>1 DEF PermitInv, LimitsKept

(* The permits by themselves bound the attempts.                            *)
LEMMA PermitsAlone ==
  ASSUME P!PermitsAssumption PROVE P!Spec => []P!AttemptsWithinPermits
  <1>1. PermitInv => P!AttemptsWithinPermits
    BY SendersHoldPermits, PermitCount DEF P!AttemptsWithinPermits
  <1>2. QED
    BY PermitInit, PermitStep, <1>1, PTL DEF P!Spec

-----------------------------------------------------------------------------
(* Message files.                                                           *)

SaverRecord ==
  [pc: {"idle", "mkdir", "inspect", "repair", "remake", "create", "write", "insert"},
   id: F!Ids \cup {"-"}, file: F!Files \cup {"-"}, gen: 0..MaxGen]
SaverTypes ==
  /\ saver \in [Savers -> SaverRecord]
  /\ \A s \in Savers : /\ saver[s].pc = "idle" <=> saver[s].id = "-"
                       /\ saver[s].pc \in {"create", "write"} => saver[s].file \in F!Files

(* A message the API is saving has one saver, which found no directory of    *)
(* that name; what it has closed so far is whole, and there is no row yet.   *)
Closed(i, upto) == \A f \in F!Files : f \in upto => dir[i].file[f] = "full"
Before(f) == CASE f = "raw" -> {} [] f = "att" -> {"raw"} [] f = "meta" -> {"raw", "att"}

ApiPlace(s) ==
  LET i == saver[s].id
  IN /\ saver[s].pc \in {"mkdir", "create", "write", "insert"}
     /\ saver[s].pc = "mkdir" => ~dir[i].there /\ dir[i].gen = 0
     /\ saver[s].pc # "mkdir" => dir[i].there /\ dir[i].gen = saver[s].gen
     /\ saver[s].pc \in {"create", "write"} => Closed(i, Before(saver[s].file))
     /\ saver[s].pc = "insert" => F!Complete(i)

ApiSaverAlone ==
  \A s \in Savers : saver[s].id \in ApiIds =>
    /\ row[saver[s].id] = "none" /\ ApiPlace(s)
    /\ \A t \in Savers \ {s} : saver[t].id # saver[s].id

(* An accepted message once had a directory, and a message past its          *)
(* retention window has no saver any more.                                  *)
NoSecondSave ==
  /\ \A i \in ApiIds : row[i] # "none" => dir[i].gen > 0
  /\ \A i \in F!Ids : dir[i].there => dir[i].gen > 0
  /\ \A s \in Savers : saver[s].id \notin aged

PurgedIsGone ==
  /\ \A i \in purge : i \in aged /\ row[i] = "final" /\ ~dir[i].there
  /\ \A i \in F!Ids : row[i] = "purged" => i \in aged /\ ~dir[i].there

FileInv ==
  F!TypeOK /\ SaverTypes /\ ApiSaverAlone /\ NoSecondSave /\ PurgedIsGone /\ F!AcceptedMailIsOnDisk

(* The invariant holds of an empty store.                                   *)
LEMMA FileInit == ASSUME F!FileStoreAssumption PROVE F!Init => FileInv
  BY DEF F!FileStoreAssumption, F!Init, FileInv, F!TypeOK, SaverRecord, SaverTypes, ApiSaverAlone, NoSecondSave, PurgedIsGone,
         F!AcceptedMailIsOnDisk, F!Idle, F!MessageDir, F!NoFiles, F!Ids, F!Files

(* A saver's step on its own directory: what holds for the other messages    *)
(* is left alone.                                                           *)
OnlyItsOwn(s, i) ==
  /\ UNCHANGED <<purge, aged>>
  /\ dir' \in [F!Ids -> F!MessageDir] /\ row' \in [F!Ids -> {"none", "queued", "final", "purged", "erased"}]
  /\ \A j \in F!Ids \ {i} : dir'[j] = dir[j] /\ row'[j] = row[j]
  /\ dir'[i].gen >= dir[i].gen /\ (dir'[i].there => dir'[i].gen > 0)
  /\ DOMAIN saver' = Savers /\ \A t \in Savers \ {s} : saver'[t] = saver[t]
  /\ saver'[s].pc = "idle" \/ saver'[s].id = i

RowStep(s, i) ==
  \/ row'[i] = row[i]
  \/ /\ row[i] = "none" /\ row'[i] = "queued" /\ dir' = dir
     /\ i \in ApiIds => F!Complete(i) /\ saver'[s].pc = "idle"
  \/ i \in ExpandedIds /\ row'[i] = "erased"

(* A step on one message's directory and row disturbs no other saver.       *)
LEMMA SaverMoves ==
  ASSUME F!FileStoreAssumption, FileInv, NEW s \in Savers, NEW i \in F!Ids, saver[s].id = i,
         OnlyItsOwn(s, i), RowStep(s, i), SaverTypes',
         saver'[s].id \in ApiIds => row'[i] = row[i] /\ ApiPlace(s)'
  PROVE  FileInv'
  <1> USE DEF OnlyItsOwn, RowStep
  <1>1. F!TypeOK'
    BY DEF FileInv, F!TypeOK, F!Ids
  <1>2. ApiSaverAlone'
    <2> SUFFICES ASSUME NEW t \in Savers, saver'[t].id \in ApiIds
                 PROVE  /\ row'[saver'[t].id] = "none" /\ ApiPlace(t)'
                        /\ \A u \in Savers \ {t} : saver'[u].id # saver'[t].id
      BY DEF ApiSaverAlone
    <2>1. CASE t = s
      <3>1. saver'[s].id = i /\ i \in ApiIds
        BY <2>1 DEF SaverRecord, SaverTypes, F!FileStoreAssumption, F!Ids
      <3>2. row[i] = "none" /\ row'[i] = "none" /\ \A u \in Savers \ {s} : saver'[u].id # i
        BY <3>1 DEF FileInv, ApiSaverAlone
      <3>3. QED
        BY <2>1, <3>1, <3>2
    <2>2. CASE t # s
      <3>1. saver'[t] = saver[t] /\ saver[t].id # i /\ saver[t].id \in F!Ids
        BY <2>2 DEF FileInv, ApiSaverAlone, F!Ids
      <3>2. dir'[saver[t].id] = dir[saver[t].id] /\ row'[saver[t].id] = row[saver[t].id]
        BY <3>1
      <3>3. \A u \in Savers \ {t} : saver'[u].id # saver[t].id
        BY <2>2, <3>1 DEF FileInv, ApiSaverAlone, SaverRecord, SaverTypes, F!FileStoreAssumption, F!Ids
      <3>4. QED
        <4>1. \A X : Closed(saver[t].id, X) => Closed(saver[t].id, X)'
          BY <3>1, <3>2 DEF Closed
        <4>2. F!Complete(saver[t].id) => F!Complete(saver[t].id)'
          BY <3>1, <3>2 DEF F!Complete, F!Files
        <4>3. QED
          BY <3>1, <3>2, <3>3, <4>1, <4>2 DEF FileInv, ApiSaverAlone, ApiPlace
    <2>3. QED
      BY <2>1, <2>2
  <1>3. NoSecondSave'
    <2>1. ASSUME NEW j \in ApiIds, row'[j] # "none" PROVE dir'[j].gen > 0
      <3>1. dir[j].gen \in Int /\ dir'[j].gen \in Int
        BY DEF FileInv, F!TypeOK, F!MessageDir, F!Ids
      <3>2. CASE row[j] # "none"
        BY <3>1, <3>2 DEF FileInv, NoSecondSave, F!Ids
      <3>3. CASE row[j] = "none"
        <4>1. j = i /\ dir' = dir /\ F!Complete(i)
          BY <2>1, <3>3 DEF F!FileStoreAssumption, F!Ids
        <4>2. QED
          BY <4>1 DEF FileInv, NoSecondSave, F!Complete
      <3>4. QED
        BY <3>2, <3>3
    <2>2. \A t \in Savers : saver'[t].id \notin aged'
      BY DEF FileInv, NoSecondSave, SaverRecord, SaverTypes, F!TypeOK, F!FileStoreAssumption, F!Ids
    <2>3. \A j \in F!Ids : dir'[j].there => dir'[j].gen > 0
      BY DEF FileInv, NoSecondSave
    <2>4. QED
      BY <2>1, <2>2, <2>3 DEF NoSecondSave, F!Ids
  <1>4. PurgedIsGone'
    <2>1. i \notin aged /\ row'[i] # "purged"
      BY DEF FileInv, PurgedIsGone, NoSecondSave
    <2>2. \A j \in purge : j \in F!Ids \ {i}
      BY <2>1 DEF FileInv, PurgedIsGone, F!TypeOK
    <2>3. QED
      BY <2>1, <2>2 DEF FileInv, PurgedIsGone, F!Ids
  <1>5. F!AcceptedMailIsOnDisk'
    BY DEF FileInv, F!AcceptedMailIsOnDisk, ApiSaverAlone, F!Complete, F!Ids
  <1>6. QED
    BY <1>1, <1>2, <1>3, <1>4, <1>5 DEF FileInv

(* A saver that is done names no message.                                   *)
LEMMA SaverEnds ==
  ASSUME F!FileStoreAssumption, FileInv, NEW s \in Savers, F!Done(s)
  PROVE  SaverTypes' /\ saver'[s].pc = "idle" /\ saver'[s].id = "-" /\ saver'[s].id \notin ApiIds
         /\ \A t \in Savers \ {s} : saver'[t] = saver[t]
  BY DEF F!Done, F!FileStoreAssumption, FileInv, SaverRecord, SaverTypes, F!Idle, F!Ids

(* Steps that leave the saver where no file of its own is open. *)
LEMMA SaverGoes ==
  ASSUME F!FileStoreAssumption, FileInv, NEW s \in Savers, saver[s].id \in ExpandedIds,
         NEW pc \in {"inspect", "repair", "remake", "insert"}, F!Goto(s, pc)
  PROVE  SaverTypes' /\ saver'[s].id = saver[s].id /\ saver'[s].id \notin ApiIds
         /\ \A t \in Savers \ {s} : saver'[t] = saver[t]
  BY DEF F!Goto, F!FileStoreAssumption, FileInv, SaverRecord, SaverTypes, F!Ids

(* Removing a directory keeps its generation.                               *)
LEMMA RemovedDir ==
  ASSUME NEW d \in F!MessageDir
  PROVE  F!Removed(d) \in F!MessageDir /\ F!Removed(d).gen = d.gen /\ ~F!Removed(d).there
  <1>1. F!NoFiles \in [F!Files -> {"no", "part", "full"}]
    BY DEF F!NoFiles
  <1>2. F!Removed(d) \in F!MessageDir
    BY <1>1 DEF F!MessageDir, F!Removed
  <1>3. F!Removed(d).gen = d.gen
    BY DEF F!MessageDir, F!Removed
  <1>4. ~F!Removed(d).there
    BY DEF F!MessageDir, F!Removed
  <1>5. QED
    BY <1>2, <1>3, <1>4

(* Making one begins the next generation.                                   *)
LEMMA MadeDir ==
  ASSUME F!FileStoreAssumption, NEW d \in F!MessageDir, d.gen < MaxGen
  PROVE  F!Made(d) \in F!MessageDir /\ F!Made(d).gen = d.gen + 1 /\ F!Made(d).there
  <1>1. F!NoFiles \in [F!Files -> {"no", "part", "full"}]
    BY DEF F!NoFiles
  <1>2. F!Made(d) \in F!MessageDir
    <2>1. d.gen + 1 \in 0..MaxGen
      BY DEF F!FileStoreAssumption, F!MessageDir
    <2>2. QED
      BY <1>1, <2>1 DEF F!MessageDir, F!Made
  <1>3. F!Made(d).gen = d.gen + 1
    BY DEF F!MessageDir, F!Made
  <1>4. F!Made(d).there
    BY DEF F!MessageDir, F!Made
  <1>5. QED
    BY <1>2, <1>3, <1>4

(* What the type says of one directory.                                     *)
LEMMA Directories ==
  ASSUME F!FileStoreAssumption, FileInv, NEW i \in F!Ids
  PROVE  dir[i] \in F!MessageDir /\ dir[i].gen \in 0..MaxGen /\ MaxGen \in Nat /\ (dir[i].there => dir[i].gen > 0)
  BY DEF F!FileStoreAssumption, FileInv, F!TypeOK, NoSecondSave, F!MessageDir

(* Every step of saving, reading and deleting keeps the invariant.          *)
LEMMA FileStep == ASSUME F!FileStoreAssumption PROVE FileInv /\ [F!Next]_F!vars => FileInv'
  <1> SUFFICES ASSUME FileInv, [F!Next]_F!vars PROVE FileInv'
    OBVIOUS
  <1> USE DEF F!Files, F!NoFiles, SaverRecord
  <1>1. CASE UNCHANGED F!vars
    BY <1>1 DEF F!vars, FileInv, F!TypeOK, SaverRecord, SaverTypes, ApiSaverAlone, ApiPlace, Closed, F!Complete, NoSecondSave, PurgedIsGone,
                F!AcceptedMailIsOnDisk
  <1>2. ASSUME NEW s \in Savers, F!Save(s) PROVE FileInv'
    <2>1. PICK i \in F!Ids :
            /\ i \notin aged /\ row[i] # "erased"
            /\ i \in ApiIds => ~dir[i].there /\ dir[i].gen = 0 /\ \A t \in Savers : saver[t].id # i
            /\ saver' = [saver EXCEPT ![s] = [F!Idle EXCEPT !.pc = "mkdir", !.id = i]]
      BY <1>2 DEF F!Save
    <2>2. UNCHANGED <<dir, row, purge, aged>>
      BY <1>2 DEF F!Save
    <2>3. saver'[s] = [pc |-> "mkdir", id |-> i, file |-> "-", gen |-> 0] /\ \A t \in Savers \ {s} : saver'[t] = saver[t]
      BY <2>1 DEF FileInv, SaverRecord, SaverTypes, F!Idle
    <2>4. SaverTypes'
      BY <2>1, <2>3 DEF FileInv, SaverRecord, SaverTypes, F!FileStoreAssumption, F!Idle
    <2>5. ApiSaverAlone'
      BY <2>1, <2>2, <2>3, SMTT(30) DEF FileInv, ApiSaverAlone, ApiPlace, Closed, F!Complete, NoSecondSave
    <2>6. F!TypeOK' /\ NoSecondSave' /\ PurgedIsGone' /\ F!AcceptedMailIsOnDisk'
      BY <2>1, <2>2, <2>3 DEF FileInv, F!TypeOK, NoSecondSave, PurgedIsGone, F!AcceptedMailIsOnDisk, F!Complete
    <2>7. QED
      BY <2>4, <2>5, <2>6 DEF FileInv
  <1>3. ASSUME NEW s \in Savers, F!ensureFreshMessageDir(s) PROVE FileInv'
    <2> DEFINE i == saver[s].id
    <2>1. i \in F!Ids /\ UNCHANGED <<row, purge, aged>> /\ F!TypeOK /\ saver \in [Savers -> SaverRecord]
      BY <1>3 DEF F!ensureFreshMessageDir, F!At, FileInv, SaverRecord, SaverTypes
    <2>2. CASE F!MakeDir(s, i)
      <3>1. dir[i].gen < MaxGen /\ dir' = [dir EXCEPT ![i] = F!Made(dir[i])]
        BY <2>2 DEF F!MakeDir
      <3>2. /\ saver'[s] = [pc |-> "create", id |-> i, file |-> "raw", gen |-> dir[i].gen + 1]
            /\ DOMAIN saver' = Savers /\ \A t \in Savers \ {s} : saver'[t] = saver[t]
        BY <2>1, <2>2, ZenonT(60) DEF F!MakeDir
      <3>3. SaverTypes'
        <4>1. dir[i].gen + 1 \in 0..MaxGen
          BY <2>1, <3>1, Directories, RemovedDir, MadeDir DEF F!MessageDir, F!FileStoreAssumption
        <4>2. saver' \in [Savers -> SaverRecord]
          BY <2>1, <2>2, <4>1, ZenonT(60) DEF F!MakeDir
        <4>3. QED
          BY <2>1, <3>2, <4>2 DEF SaverRecord, SaverTypes, FileInv, F!FileStoreAssumption
      <3>4. OnlyItsOwn(s, i)
        BY <2>1, <3>1, <3>2, Directories, RemovedDir, MadeDir DEF OnlyItsOwn, F!TypeOK
      <3>5. ApiPlace(s)'
        BY <2>1, <3>1, <3>2, Directories, RemovedDir, MadeDir DEF ApiPlace, Closed, Before, F!TypeOK
      <3>6. QED
        BY <2>1, <3>3, <3>4, <3>5, SaverMoves DEF RowStep
    <2>3. CASE ~F!MakeDir(s, i)
      <3>1. i \in ExpandedIds
        BY <1>3, <2>1, <2>3 DEF F!ensureFreshMessageDir, F!At, FileInv, ApiSaverAlone, ApiPlace, F!Ids
      <3>2. dir' = dir \/ dir' = [dir EXCEPT ![i] = F!Removed(dir[i])]
        BY <1>3, <2>3 DEF F!ensureFreshMessageDir
      <3>3. \E pc \in {"inspect", "repair", "remake", "insert"} : F!Goto(s, pc)
        BY <1>3, <2>3, <3>1 DEF F!ensureFreshMessageDir, F!RecordExists
      <3>4. /\ SaverTypes' /\ saver'[s].id = saver[s].id /\ saver'[s].id \notin ApiIds
            /\ \A t \in Savers \ {s} : saver'[t] = saver[t]
        BY <3>1, <3>3, SaverGoes
      <3>5. OnlyItsOwn(s, i)
        BY <2>1, <3>2, <3>4, Directories, RemovedDir, MadeDir DEF OnlyItsOwn, F!TypeOK, SaverRecord, SaverTypes
      <3>6. QED
        BY <2>1, <3>4, <3>5, SaverMoves DEF RowStep
    <2>4. QED
      BY <2>2, <2>3
  <1>4. ASSUME NEW s \in Savers, F!WriteFile(s) PROVE FileInv'
    <2> DEFINE i == saver[s].id
               f == saver[s].file
    <2>1. i \in F!Ids /\ f \in F!Files /\ UNCHANGED <<row, purge, aged>> /\ F!TypeOK
      BY <1>4 DEF F!WriteFile, F!At, FileInv, SaverRecord, SaverTypes
    <2>2. CASE F!cleanupFailedSave(i) /\ F!Done(s)
      <3>1. /\ SaverTypes' /\ saver'[s].pc = "idle" /\ saver'[s].id \notin ApiIds
            /\ \A t \in Savers \ {s} : saver'[t] = saver[t]
        BY <2>2, SaverEnds
      <3>2. dir' = [dir EXCEPT ![i] = F!Removed(dir[i])]
        BY <2>2 DEF F!cleanupFailedSave
      <3>3. OnlyItsOwn(s, i)
        BY <2>1, <3>1, <3>2, Directories, RemovedDir DEF OnlyItsOwn, F!TypeOK, SaverRecord, SaverTypes
      <3>4. QED
        BY <2>1, <3>1, <3>3, SaverMoves DEF RowStep
    <2>3. CASE F!At(s, "create") /\ dir[i].there /\ dir' = [dir EXCEPT ![i].file[f] = "part", ![i].old = FALSE]
               /\ saver' = [saver EXCEPT ![s].pc = "write", ![s].gen = dir[i].gen]
      <3>1. /\ DOMAIN saver' = Savers /\ \A t \in Savers \ {s} : saver'[t] = saver[t]
            /\ saver'[s].pc = "write" /\ saver'[s].id = i /\ saver'[s].file = f /\ saver'[s].gen = dir[i].gen
        BY <2>3 DEF FileInv, SaverRecord, SaverTypes
      <3>2. SaverTypes'
        <4>1. dir[i].gen \in 0..MaxGen
          BY <2>1, Directories
        <4>2. saver' \in [Savers -> SaverRecord]
          <5>1. /\ saver' = [saver EXCEPT ![s].pc = "write", ![s].gen = dir[i].gen]
                /\ saver \in [Savers -> SaverRecord]
            BY <2>3 DEF FileInv, SaverRecord, SaverTypes
          <5> HIDE DEF i
          <5>2. QED
            BY <4>1, <5>1, ZenonT(60)
        <4>3. QED
          BY <2>1, <3>1, <4>2 DEF FileInv, SaverRecord, SaverTypes, F!FileStoreAssumption
      <3>3. /\ dir' \in [F!Ids -> F!MessageDir] /\ \A j \in F!Ids \ {i} : dir'[j] = dir[j]
            /\ dir'[i].gen = dir[i].gen /\ \A g \in F!Files \ {f} : dir'[i].file[g] = dir[i].file[g]
        <4>1. dir' \in [F!Ids -> F!MessageDir]
          <5>1. dir' = [dir EXCEPT ![i] = [dir[i] EXCEPT !.file[f] = "part", !.old = FALSE]] /\ dir \in [F!Ids -> F!MessageDir]
            BY <2>1, <2>3 DEF F!TypeOK
          <5> HIDE DEF i, f
          <5>2. [dir[i] EXCEPT !.file[f] = "part", !.old = FALSE] \in F!MessageDir
            BY <2>1, <5>1 DEF F!MessageDir
          <5>3. QED
            BY <5>1, <5>2
        <4>2. \A j \in F!Ids \ {i} : dir'[j] = dir[j]
          BY <2>1, <2>3 DEF F!TypeOK
        <4>3. dir'[i].gen = dir[i].gen
          BY <2>1, <2>3 DEF F!TypeOK, F!MessageDir
        <4>4. \A g \in F!Files \ {f} : dir'[i].file[g] = dir[i].file[g]
          BY <2>1, <2>3 DEF F!TypeOK, F!MessageDir
        <4>5. QED
          BY <4>1, <4>2, <4>3, <4>4
      <3>4. dir'[i].there
        BY <2>1, <2>3 DEF F!TypeOK, F!MessageDir
      <3>5. OnlyItsOwn(s, i)
        <4>1. dir'[i].gen \in Int /\ dir'[i].gen > 0 /\ dir'[i].gen >= dir[i].gen
          <5> HIDE DEF i
          <5>1. dir[i].gen \in 0..MaxGen /\ MaxGen \in Nat /\ dir[i].gen > 0
            BY <2>1, <2>3, Directories
          <5>2. dir'[i].gen = dir[i].gen
            BY <3>3
          <5>3. QED
            BY <5>1, <5>2
        <4>2. QED
          BY <2>1, <3>1, <3>3, <4>1 DEF OnlyItsOwn, F!TypeOK
      <3>6. i \in ApiIds => Closed(i, Before(f))
        BY <2>1, <2>3 DEF FileInv, ApiSaverAlone, ApiPlace, F!At
      <3>7. i \in ApiIds => ApiPlace(s)'
        BY <2>1, <3>1, <3>3, <3>4, <3>6, SMTT(30) DEF ApiPlace, Closed, Before
      <3>8. QED
        BY <2>1, <3>1, <3>2, <3>5, <3>7, SaverMoves DEF RowStep
    <2>4. CASE /\ F!At(s, "write")
               /\ dir' = [dir EXCEPT ![i].file[f] = IF dir[i].there /\ dir[i].gen = saver[s].gen THEN "full" ELSE @]
               /\ saver' = IF f = "meta" THEN [saver EXCEPT ![s].pc = "insert"]
                            ELSE [saver EXCEPT ![s].pc = "create", ![s].file = F!NextFile(s)]
      <3>1. /\ DOMAIN saver' = Savers /\ \A t \in Savers \ {s} : saver'[t] = saver[t]
            /\ saver'[s].id = i /\ saver'[s].gen = saver[s].gen
        BY <2>4 DEF FileInv, SaverRecord, SaverTypes
      <3>2. /\ f = "meta" => saver'[s].pc = "insert"
            /\ f # "meta" => saver'[s].pc = "create" /\ saver'[s].file = F!NextFile(s)
        BY <2>4 DEF FileInv, SaverRecord, SaverTypes
      <3>3. SaverTypes'
        BY <2>1, <2>4, <3>1, <3>2 DEF FileInv, SaverRecord, SaverTypes, F!FileStoreAssumption, F!NextFile
      <3>4. /\ dir' \in [F!Ids -> F!MessageDir] /\ \A j \in F!Ids \ {i} : dir'[j] = dir[j]
            /\ dir'[i].gen = dir[i].gen /\ \A g \in F!Files \ {f} : dir'[i].file[g] = dir[i].file[g]
        <4>1. PICK v : v = IF dir[i].there /\ dir[i].gen = saver[s].gen THEN "full" ELSE dir[i].file[f]
          OBVIOUS
        <4>2. dir' = [dir EXCEPT ![i].file[f] = v] /\ dir \in [F!Ids -> F!MessageDir]
          BY <2>1, <2>4, <4>1 DEF F!TypeOK
        <4>3. dir[i] \in F!MessageDir /\ f \in F!Files
          BY <2>1, <4>2
        <4> HIDE DEF i, f
        <4>4. v \in {"no", "part", "full"}
          BY <4>1, <4>3 DEF F!MessageDir
        <4>5. [dir[i] EXCEPT !.file[f] = v] \in F!MessageDir
          BY <4>3, <4>4 DEF F!MessageDir
        <4>6. dir' \in [F!Ids -> F!MessageDir] /\ \A j \in F!Ids \ {i} : dir'[j] = dir[j]
          BY <2>1, <4>2, <4>5
        <4>7. dir'[i] = [dir[i] EXCEPT !.file[f] = v]
          BY <2>1, <4>2
        <4>8. dir'[i].gen = dir[i].gen /\ \A g \in F!Files \ {f} : dir'[i].file[g] = dir[i].file[g]
          BY <4>3, <4>7 DEF F!MessageDir
        <4>9. QED
          BY <4>6, <4>8
      <3>5. dir'[i].there = dir[i].there
        BY <2>1, <2>4 DEF F!TypeOK, F!MessageDir
      <3>6. OnlyItsOwn(s, i)
        BY <2>1, <3>1, <3>4, <3>5, Directories DEF OnlyItsOwn, F!TypeOK
      <3>7. i \in ApiIds => ApiPlace(s)'
        <4> SUFFICES ASSUME i \in ApiIds PROVE ApiPlace(s)'
          OBVIOUS
        <4>1. dir[i].there /\ dir[i].gen = saver[s].gen /\ Closed(i, Before(f))
          BY <2>1, <2>4 DEF FileInv, ApiSaverAlone, ApiPlace, F!At
        <4>2. dir'[i].file[f] = "full"
          BY <2>1, <2>4, <4>1 DEF F!TypeOK, F!MessageDir
        <4>3. \A g \in Before(f) \cup {f} : dir'[i].file[g] = "full"
          BY <2>1, <3>4, <4>1, <4>2 DEF Closed, Before
        <4>4. CASE f = "meta"
          <5>1. F!Complete(i)'
            BY <2>1, <3>1, <3>5, <4>1, <4>3, <4>4 DEF F!Complete, Before
          <5>2. QED
            BY <3>1, <3>2, <3>4, <3>5, <4>1, <4>4, <5>1 DEF ApiPlace
        <4>5. CASE f # "meta"
          <5>1. \A g \in Before(F!NextFile(s)) : dir'[i].file[g] = "full"
            BY <2>1, <4>3, <4>5 DEF Before, F!NextFile
          <5>2. QED
            BY <3>1, <3>2, <3>4, <3>5, <4>1, <4>5, <5>1 DEF ApiPlace, Closed
        <4>6. QED
          BY <4>4, <4>5
      <3>8. QED
        BY <2>1, <3>1, <3>3, <3>6, <3>7, SaverMoves DEF RowStep
    <2>5. QED
      BY <1>4, <2>2, <2>3, <2>4 DEF F!WriteFile, F!CreateExclusive, F!WriteAll
  <1>5. ASSUME NEW s \in Savers, F!InsertMessage(s) PROVE FileInv'
    <2> DEFINE i == saver[s].id
    <2>1. i \in F!Ids /\ UNCHANGED <<purge, aged>> /\ F!TypeOK /\ F!Done(s)
      BY <1>5 DEF F!InsertMessage, F!At, FileInv, SaverRecord, SaverTypes
    <2>2. \/ UNCHANGED <<row, dir>>
          \/ row[i] = "none" /\ row' = [row EXCEPT ![i] = "queued"] /\ dir' = dir
          \/ i \in ExpandedIds /\ dir' = [dir EXCEPT ![i] = F!Removed(dir[i])] /\ row' = [row EXCEPT ![i] = "erased"]
      BY <1>5 DEF F!InsertMessage
    <2>3. /\ SaverTypes' /\ saver'[s].pc = "idle" /\ saver'[s].id \notin ApiIds
          /\ \A t \in Savers \ {s} : saver'[t] = saver[t]
      BY <2>1, SaverEnds
    <2>4. i \in ApiIds => F!Complete(i)
      BY <1>5 DEF F!InsertMessage, F!At, FileInv, ApiSaverAlone, ApiPlace
    <2>5. OnlyItsOwn(s, i)
      BY <2>1, <2>2, <2>3, Directories, RemovedDir, MadeDir DEF OnlyItsOwn, F!TypeOK, SaverRecord, SaverTypes
    <2>6. RowStep(s, i)
      BY <2>1, <2>2, <2>3, <2>4 DEF RowStep, F!TypeOK
    <2>7. QED
      BY <2>1, <2>3, <2>5, <2>6, SaverMoves
  <1>6. ASSUME NEW s \in Savers, F!Crash(s) PROVE FileInv'
    <2>1. saver[s].id \in F!Ids
      BY <1>6 DEF F!Crash, F!At, FileInv, SaverRecord, SaverTypes
    <2>2. F!Done(s) /\ UNCHANGED <<dir, row, purge, aged>> /\ F!TypeOK
      BY <1>6 DEF F!Crash, FileInv
    <2>3. QED
      BY <2>1, <2>2, SaverEnds, Directories, SaverMoves DEF F!TypeOK, OnlyItsOwn, RowStep, SaverRecord, SaverTypes
  <1>7. ASSUME NEW i \in F!Ids, F!Age(i) PROVE FileInv'
    <2>1. UNCHANGED <<row, saver, purge, aged>> /\ dir' = [dir EXCEPT ![i].old = TRUE]
      BY <1>7 DEF F!Age
    <2>2. F!TypeOK'
      BY <2>1 DEF FileInv, F!TypeOK, F!MessageDir
    <2>3. \A j \in F!Ids : dir'[j].gen = dir[j].gen /\ dir'[j].file = dir[j].file
      BY <2>1 DEF FileInv, F!TypeOK, F!MessageDir
    <2>4. \A j \in F!Ids : dir'[j].there = dir[j].there
      BY <2>1 DEF FileInv, F!TypeOK, F!MessageDir
    <2>5. SaverTypes' /\ NoSecondSave' /\ PurgedIsGone'
      BY <2>1, <2>3, <2>4 DEF FileInv, F!TypeOK, SaverRecord, SaverTypes, NoSecondSave, PurgedIsGone, F!Ids
    <2>6. \A j \in F!Ids : F!Complete(j)' <=> F!Complete(j)
      BY <2>3, <2>4 DEF F!Complete
    <2>7. ApiSaverAlone' /\ F!AcceptedMailIsOnDisk'
      BY <2>1, <2>3, <2>4, <2>6 DEF FileInv, ApiSaverAlone, ApiPlace, Closed, F!AcceptedMailIsOnDisk, F!Ids
    <2>8. QED
      BY <2>2, <2>5, <2>7 DEF FileInv
  <1>8. ASSUME NEW i \in F!Ids, F!Settle(i) PROVE FileInv'
    BY <1>8 DEF F!Settle, FileInv, F!TypeOK, SaverRecord, SaverTypes, ApiSaverAlone, ApiPlace, Closed, F!Complete, NoSecondSave,
                PurgedIsGone, F!AcceptedMailIsOnDisk, F!Ids
  <1>9. ASSUME NEW i \in F!Ids, F!Expire(i) PROVE FileInv'
    BY <1>9 DEF F!Expire, FileInv, F!TypeOK, SaverRecord, SaverTypes, ApiSaverAlone, ApiPlace, Closed, F!Complete, NoSecondSave,
                PurgedIsGone, F!AcceptedMailIsOnDisk, F!Ids
  <1>10. ASSUME NEW i \in F!Ids, F!collectPurgeableIDs(i) PROVE FileInv'
    <2>1. /\ UNCHANGED <<row, saver, aged>> /\ dir' = [dir EXCEPT ![i] = F!Removed(dir[i])] /\ purge' = purge \cup {i}
          /\ i \in aged /\ row[i] = "final"
      BY <1>10 DEF F!collectPurgeableIDs, F!Purgeable, F!Delete
    <2>2. F!TypeOK' /\ dir'[i].gen = dir[i].gen /\ ~dir'[i].there /\ \A j \in F!Ids \ {i} : dir'[j] = dir[j]
      BY <2>1, Directories, RemovedDir DEF FileInv, F!TypeOK
    <2>3. SaverTypes' /\ NoSecondSave' /\ PurgedIsGone'
      BY <2>1, <2>2 DEF FileInv, F!TypeOK, SaverRecord, SaverTypes, NoSecondSave, PurgedIsGone, F!Ids
    <2>4. \A s \in Savers : saver[s].id # i
      BY <2>1 DEF FileInv, NoSecondSave
    <2>5. ApiSaverAlone' /\ F!AcceptedMailIsOnDisk'
      BY <2>1, <2>2, <2>4 DEF FileInv, ApiSaverAlone, ApiPlace, Closed, F!Complete, F!AcceptedMailIsOnDisk, F!Ids
    <2>6. QED
      BY <2>2, <2>3, <2>5 DEF FileInv
  <1>11. CASE F!PurgeExpiredMessages
    <2>1. /\ UNCHANGED <<dir, saver, aged>> /\ purge' = {}
          /\ row' = [i \in F!Ids |-> IF i \in purge THEN "purged" ELSE row[i]]
      BY <1>11 DEF F!PurgeExpiredMessages
    <2>2. F!TypeOK' /\ SaverTypes' /\ NoSecondSave' /\ PurgedIsGone'
      BY <2>1 DEF FileInv, F!TypeOK, SaverRecord, SaverTypes, NoSecondSave, PurgedIsGone, F!Ids
    <2>3. ApiSaverAlone' /\ F!AcceptedMailIsOnDisk'
      BY <2>1 DEF FileInv, ApiSaverAlone, ApiPlace, Closed, F!Complete, F!AcceptedMailIsOnDisk, PurgedIsGone, F!Ids
    <2>4. QED
      BY <2>2, <2>3 DEF FileInv
  <1>12. CASE F!PurgeFails
    BY <1>12 DEF F!PurgeFails, FileInv, F!TypeOK, SaverRecord, SaverTypes, ApiSaverAlone, ApiPlace, Closed, F!Complete, NoSecondSave,
                PurgedIsGone, F!AcceptedMailIsOnDisk
  <1>13. QED
    BY <1>1, <1>2, <1>3, <1>4, <1>5, <1>6, <1>7, <1>8, <1>9, <1>10, <1>11, <1>12
    DEF F!Next, F!writeStringExclusive, F!writeAttachmentFile, F!writeBytesExclusive

(* The file store by itself agrees with its rows.                           *)
LEMMA FilesAlone ==
  ASSUME F!FileStoreAssumption PROVE F!Spec => []F!FilesMatchRows
  <1>1. FileInv => F!FilesMatchRows
    BY DEF FileInv, PurgedIsGone, F!FilesMatchRows, F!PurgeLeavesNoOrphan
  <1>2. QED
    BY FileInit, FileStep, <1>1, PTL DEF F!Spec

-----------------------------------------------------------------------------
(* Start, migration and shutdown.                                           *)

ProcRecord ==
  [pc: {"down", "open", "list", "apply", "tx", "build", "up", "wait", "close"}, mode: L!Modes,
   embeds: 0..Versions, applied: SUBSET Nat, at: Nat, opened: 0..3, signalled: BOOLEAN, canceled: BOOLEAN,
   comp: [L!Components -> {"running", "nil", "done"}], errs: SUBSET L!Components, all: BOOLEAN,
   exit: {"none", "ok", "error"}, failed: BOOLEAN]

(* The migrations a process has seen applied are a prefix of the schema, and *)
(* the one it is about to apply is the next after them; a process past its   *)
(* migrations has all of them.                                              *)
SchemaOK(r) ==
  /\ r.pc \in {"apply", "tx"} => \E k \in 0..Len(schema) : r.applied = 1..k /\ (r.pc = "tx" => r.at = k + 1 /\ r.at <= Versions)
  /\ r.pc \in {"build", "up", "wait"} /\ r.mode = "full" => 1..r.embeds \subseteq 1..Len(schema)

(* Components run only in a process that is up or waits for them, with all   *)
(* that its mode needs open; a failure is remembered until the exit status.  *)
NeededBy(r) == IF r.mode = "smtp-only" THEN 0 ELSE 3
StageOK(r) ==
  /\ (\E c \in L!Components : r.comp[c] # "done") => r.pc \in {"up", "wait"}
  /\ r.pc \in {"open", "list", "apply", "tx"} => r.mode # "smtp-only"
  /\ r.mode = "smtp-only" => r.opened = 0
  /\ r.pc \in {"up", "wait"} => r.opened = NeededBy(r)
ExitOK(r) ==
  /\ r.exit # "none" => r.pc = "close"
  /\ r.failed => r.pc \in {"up", "wait", "close"}
  /\ r.pc \in {"up", "wait"} /\ r.failed => r.all \/ r.errs # {}
  /\ r.pc = "wait" => r.signalled \/ r.all
  /\ r.exit = "ok" /\ r.mode # "migrate" => r.signalled /\ ~r.failed

LifeInv ==
  /\ schema \in Seq(Nat) /\ schema = [i \in 1..Len(schema) |-> i] /\ recorded = 1..Len(schema)
  /\ Len(schema) <= Versions /\ starts \in 0..MaxStarts
  /\ DOMAIN proc = Processes
  /\ \A p \in Processes : proc[p] \in ProcRecord /\ SchemaOK(proc[p]) /\ StageOK(proc[p]) /\ ExitOK(proc[p])

(* A process that is down is in order.                                      *)
LEMMA DownOK ==
  ASSUME L!LifecycleAssumption
  PROVE  L!Down \in ProcRecord /\ SchemaOK(L!Down) /\ StageOK(L!Down) /\ ExitOK(L!Down)
  <1>1. L!Down \in ProcRecord
    BY DEF L!Down, ProcRecord, L!Modes, L!LifecycleAssumption
  <1>2. SchemaOK(L!Down) /\ StageOK(L!Down)
    BY DEF L!Down, SchemaOK, StageOK, NeededBy
  <1>3. ExitOK(L!Down)
    BY DEF L!Down, ExitOK
  <1>4. QED
    BY <1>1, <1>2, <1>3

(* The invariant holds before any process was started.                      *)
LEMMA LifeInit == ASSUME L!LifecycleAssumption PROVE L!Init => LifeInv
  <1> SUFFICES ASSUME L!Init PROVE LifeInv
    OBVIOUS
  <1>1. schema \in Seq(Nat) /\ Len(schema) = 0 /\ schema = [i \in 1..0 |-> i] /\ recorded = 1..0
    BY DEF L!Init
  <1>2. QED
    BY <1>1, DownOK DEF L!Init, LifeInv, L!LifecycleAssumption

(* One process moves and the database stays. *)
LEMMA OneMoves ==
  ASSUME LifeInv, NEW p \in Processes, NEW r \in ProcRecord, L!Set(p, r), UNCHANGED <<schema, recorded>>, starts' \in 0..MaxStarts,
         SchemaOK(r), StageOK(r), ExitOK(r)
  PROVE  LifeInv'
  <1>1. DOMAIN proc' = Processes /\ \A q \in Processes : proc'[q] \in ProcRecord /\ SchemaOK(proc'[q]) /\ StageOK(proc'[q]) /\ ExitOK(proc'[q])
    BY DEF LifeInv, L!Set
  <1>2. \A q \in Processes : SchemaOK(proc[q])' /\ StageOK(proc[q])' /\ ExitOK(proc[q])'
    BY <1>1 DEF SchemaOK, StageOK, ExitOK, NeededBy
  <1>3. QED
    BY <1>1, <1>2 DEF LifeInv

(* Every step of starting, running and stopping keeps the invariant.        *)
LEMMA LifeStep == ASSUME L!LifecycleAssumption PROVE LifeInv /\ [L!Next]_L!vars => LifeInv'
  <1> SUFFICES ASSUME LifeInv, [L!Next]_L!vars PROVE LifeInv'
    OBVIOUS
  <1>1. CASE UNCHANGED L!vars
    BY <1>1 DEF L!vars, LifeInv, SchemaOK, StageOK, ExitOK, NeededBy
  <1>2. ASSUME NEW p \in Processes, L!Fail(p) PROVE LifeInv'
    <2> DEFINE q == proc[p]
               r == [q EXCEPT !.pc = "close", !.exit = "error"]
    <2>1. /\ q \in ProcRecord /\ SchemaOK(q) /\ StageOK(q) /\ ExitOK(q)
          /\ L!Set(p, r) /\ UNCHANGED <<schema, recorded>> /\ starts' \in 0..MaxStarts
          /\ q.pc \in {"open", "list", "apply", "tx", "build"}
      BY <1>2 DEF L!Fail, L!Database, L!At, LifeInv
    <2> HIDE DEF q
    <2>2. r \in ProcRecord
      BY <2>1 DEF ProcRecord
    <2>3. SchemaOK(r)
      BY <2>1 DEF SchemaOK, ProcRecord
    <2>4. StageOK(r)
      BY <2>1 DEF StageOK, NeededBy, ProcRecord
    <2>5. ExitOK(r)
      BY <2>1 DEF ExitOK, ProcRecord
    <2> HIDE DEF r
    <2>6. QED
      BY <2>1, <2>2, <2>3, <2>4, <2>5, OneMoves
  <1>3. ASSUME NEW p \in Processes, L!Open(p) PROVE LifeInv'
    <2> DEFINE q == proc[p]
               r == [q EXCEPT !.pc = "list", !.opened = 1]
    <2>1. /\ q \in ProcRecord /\ SchemaOK(q) /\ StageOK(q) /\ ExitOK(q)
          /\ L!Set(p, r) /\ UNCHANGED <<schema, recorded>> /\ starts' \in 0..MaxStarts
          /\ q.pc = "open" /\ 1 \in 0..3
      BY <1>3 DEF L!Open, L!Database, L!At, LifeInv
    <2> HIDE DEF q
    <2>2. r \in ProcRecord
      BY <2>1 DEF ProcRecord
    <2>3. SchemaOK(r)
      BY <2>1 DEF SchemaOK, ProcRecord
    <2>4. StageOK(r)
      BY <2>1 DEF StageOK, NeededBy, ProcRecord
    <2>5. ExitOK(r)
      BY <2>1 DEF ExitOK, ProcRecord
    <2> HIDE DEF r
    <2>6. QED
      BY <2>1, <2>2, <2>3, <2>4, <2>5, OneMoves
  <1>4. ASSUME NEW p \in Processes, L!notifyShutdown(p) PROVE LifeInv'
    <2> DEFINE q == proc[p]
               r == [q EXCEPT !.signalled = TRUE]
    <2>1. /\ q \in ProcRecord /\ SchemaOK(q) /\ StageOK(q) /\ ExitOK(q)
          /\ L!Set(p, r) /\ UNCHANGED <<schema, recorded>> /\ starts' \in 0..MaxStarts
          /\ q.pc \notin {"down", "close"}
      BY <1>4 DEF L!notifyShutdown, L!Database, L!At, LifeInv
    <2> HIDE DEF q
    <2>2. r \in ProcRecord
      BY <2>1 DEF ProcRecord
    <2>3. SchemaOK(r)
      BY <2>1 DEF SchemaOK, ProcRecord
    <2>4. StageOK(r)
      BY <2>1 DEF StageOK, NeededBy, ProcRecord
    <2>5. ExitOK(r)
      BY <2>1 DEF ExitOK, ProcRecord
    <2> HIDE DEF r
    <2>6. QED
      BY <2>1, <2>2, <2>3, <2>4, <2>5, OneMoves
  <1>5. ASSUME NEW p \in Processes, L!migrate(p) PROVE LifeInv'
    <2> DEFINE q == proc[p]
               r == [[q EXCEPT !.applied = {}, !.at = 0] EXCEPT !.pc = "close", !.exit = "ok"]
    <2>1. /\ q \in ProcRecord /\ SchemaOK(q) /\ StageOK(q) /\ ExitOK(q)
          /\ L!Set(p, r) /\ UNCHANGED <<schema, recorded>> /\ starts' \in 0..MaxStarts
          /\ q.pc = "apply" /\ q.mode = "migrate"
      BY <1>5 DEF L!migrate, L!Migrated, L!Database, L!At, LifeInv
    <2> HIDE DEF q
    <2>2. r \in ProcRecord
      BY <2>1 DEF ProcRecord
    <2>3. SchemaOK(r)
      BY <2>1 DEF SchemaOK, ProcRecord
    <2>4. StageOK(r)
      BY <2>1 DEF StageOK, NeededBy, ProcRecord
    <2>5. ExitOK(r)
      BY <2>1 DEF ExitOK, ProcRecord
    <2> HIDE DEF r
    <2>6. QED
      BY <2>1, <2>2, <2>3, <2>4, <2>5, OneMoves
  <1>6. ASSUME NEW p \in Processes, L!Wait(p) PROVE LifeInv'
    <2> DEFINE q == proc[p]
               r == [q EXCEPT !.pc = "close", !.errs = {}, !.exit = IF q.all \/ q.errs # {} THEN "error" ELSE "ok"]
    <2>1. /\ q \in ProcRecord /\ SchemaOK(q) /\ StageOK(q) /\ ExitOK(q)
          /\ L!Set(p, r) /\ UNCHANGED <<schema, recorded>> /\ starts' \in 0..MaxStarts
          /\ q.pc = "wait" /\ \A c \in L!Components : q.comp[c] = "done"
      BY <1>6 DEF L!Wait, L!Joined, L!Database, L!At, LifeInv
    <2> HIDE DEF q
    <2>2. r \in ProcRecord
      BY <2>1 DEF ProcRecord
    <2>3. SchemaOK(r)
      BY <2>1 DEF SchemaOK, ProcRecord
    <2>4. StageOK(r)
      BY <2>1 DEF StageOK, NeededBy, ProcRecord
    <2>5. ExitOK(r)
      BY <2>1 DEF ExitOK, ProcRecord
    <2> HIDE DEF r
    <2>6. QED
      BY <2>1, <2>2, <2>3, <2>4, <2>5, OneMoves
  <1>7. ASSUME NEW p \in Processes, L!Migrate(p) PROVE LifeInv'
    <2> DEFINE q == proc[p]
               m == L!Min(L!Pending(p))
               r == [q EXCEPT !.pc = "tx", !.at = m]
    <2>1. /\ q \in ProcRecord /\ SchemaOK(q) /\ StageOK(q) /\ ExitOK(q)
          /\ L!Set(p, r) /\ UNCHANGED <<schema, recorded>> /\ starts' \in 0..MaxStarts
          /\ q.pc = "apply" /\ L!Pending(p) # {} /\ Len(schema) \in Nat /\ Versions \in Nat
      BY <1>7 DEF L!Migrate, L!Database, L!At, LifeInv, L!LifecycleAssumption
    <2>2. PICK k \in 0..Len(schema) : q.applied = 1..k
      BY <2>1 DEF SchemaOK
    <2>3. L!Pending(p) = (k + 1)..q.embeds /\ q.embeds \in Nat /\ k \in Nat
      BY <2>1, <2>2 DEF L!Pending, L!loadMigrations, ProcRecord
    <2>4. k + 1 \in L!Pending(p) /\ \A y \in L!Pending(p) : k + 1 <= y
      BY <2>1, <2>3
    <2>5. m = k + 1 /\ m \in Nat /\ m <= Versions
      <3>1. m = k + 1
        BY <2>3, <2>4 DEF L!Min
      <3>2. QED
        BY <2>1, <2>3, <2>4, <3>1 DEF ProcRecord
    <2> HIDE DEF q, m
    <2>6. r \in ProcRecord
      <3>1. m \in Nat
        BY <2>5
      <3>2. QED
        BY <2>1, <3>1 DEF ProcRecord
    <2>7. SchemaOK(r)
      BY <2>1, <2>2, <2>5 DEF SchemaOK, ProcRecord
    <2>8. StageOK(r)
      BY <2>1 DEF StageOK, NeededBy, ProcRecord
    <2>9. ExitOK(r)
      BY <2>1 DEF ExitOK, ProcRecord
    <2> HIDE DEF r
    <2>10. QED
      BY <2>1, <2>6, <2>7, <2>8, <2>9, OneMoves
  <1>8. ASSUME NEW p \in Processes, L!appliedVersions(p) PROVE LifeInv'
    <2> DEFINE q == proc[p]
               r == [q EXCEPT !.pc = "apply", !.applied = recorded]
    <2>1. /\ q \in ProcRecord /\ SchemaOK(q) /\ StageOK(q) /\ ExitOK(q)
          /\ L!Set(p, r) /\ UNCHANGED <<schema, recorded>> /\ starts' \in 0..MaxStarts
          /\ q.pc = "list" /\ recorded = 1..Len(schema) /\ Len(schema) \in Nat /\ recorded \in SUBSET Nat
      BY <1>8 DEF L!appliedVersions, L!Database, L!At, LifeInv
    <2> HIDE DEF q
    <2>2. r \in ProcRecord
      BY <2>1 DEF ProcRecord
    <2>3. SchemaOK(r)
      BY <2>1 DEF SchemaOK, ProcRecord
    <2>4. StageOK(r)
      BY <2>1 DEF StageOK, NeededBy, ProcRecord
    <2>5. ExitOK(r)
      BY <2>1 DEF ExitOK, ProcRecord
    <2> HIDE DEF r
    <2>6. QED
      BY <2>1, <2>2, <2>3, <2>4, <2>5, OneMoves
  <1>9. ASSUME NEW p \in Processes, L!openDatabase(p) PROVE LifeInv'
    <2> DEFINE q == proc[p]
               r == [[q EXCEPT !.applied = {}, !.at = 0] EXCEPT !.pc = "build"]
    <2>1. /\ q \in ProcRecord /\ SchemaOK(q) /\ StageOK(q) /\ ExitOK(q)
          /\ L!Set(p, r) /\ UNCHANGED <<schema, recorded>> /\ starts' \in 0..MaxStarts
          /\ q.pc = "apply" /\ 1..q.embeds \subseteq q.applied
      BY <1>9 DEF L!openDatabase, L!Migrated, L!Pending, L!loadMigrations, L!Database, L!At, LifeInv
    <2> HIDE DEF q
    <2>2. r \in ProcRecord
      BY <2>1 DEF ProcRecord
    <2>3. SchemaOK(r)
      BY <2>1 DEF SchemaOK, ProcRecord
    <2>4. StageOK(r)
      BY <2>1 DEF StageOK, NeededBy, ProcRecord
    <2>5. ExitOK(r)
      BY <2>1 DEF ExitOK, ProcRecord
    <2> HIDE DEF r
    <2>6. QED
      BY <2>1, <2>2, <2>3, <2>4, <2>5, OneMoves
  <1>10. ASSUME NEW p \in Processes, L!runFull(p) PROVE LifeInv'
    <2> DEFINE q == proc[p]
    <2>1. /\ q \in ProcRecord /\ SchemaOK(q) /\ StageOK(q) /\ ExitOK(q)
          /\ UNCHANGED <<schema, recorded>> /\ starts' \in 0..MaxStarts /\ q.pc = "build"
      BY <1>10 DEF L!runFull, L!Database, L!At, LifeInv
    <2>2. CASE q.opened < L!Needed(p)
      <3> DEFINE r == [q EXCEPT !.opened = q.opened + 1]
      <3>1. L!Set(p, r) /\ q.mode # "smtp-only" /\ q.opened + 1 \in 0..3
        BY <1>10, <2>1, <2>2 DEF L!runFull, L!Needed, L!Resources, ProcRecord
      <3> HIDE DEF q
      <3>2. r \in ProcRecord
        BY <2>1, <3>1 DEF ProcRecord
      <3>3. SchemaOK(r)
        BY <2>1 DEF SchemaOK, ProcRecord
      <3>4. StageOK(r)
        BY <2>1, <3>1 DEF StageOK, NeededBy, ProcRecord
      <3>5. ExitOK(r)
        BY <2>1 DEF ExitOK, ProcRecord
      <3> HIDE DEF r
      <3>6. QED
        BY <2>1, <3>1, <3>2, <3>3, <3>4, <3>5, OneMoves
    <2>3. CASE ~(q.opened < L!Needed(p))
      <3> DEFINE n == [c \in L!Components |-> IF c \in L!Started(p) THEN "running" ELSE "done"]
                 r == [q EXCEPT !.pc = "up", !.comp = n]
      <3>1. L!Set(p, r) /\ q.opened = NeededBy(q) /\ n \in [L!Components -> {"running", "nil", "done"}]
        BY <1>10, <2>1, <2>3 DEF L!runFull, L!Needed, NeededBy, L!Resources, ProcRecord, StageOK
      <3> HIDE DEF q, n
      <3>2. r \in ProcRecord
        BY <2>1, <3>1 DEF ProcRecord
      <3>3. SchemaOK(r)
        BY <2>1 DEF SchemaOK, ProcRecord
      <3>4. StageOK(r)
        BY <2>1, <3>1 DEF StageOK, NeededBy, ProcRecord
      <3>5. ExitOK(r)
        BY <2>1 DEF ExitOK, ProcRecord
      <3> HIDE DEF r
      <3>6. QED
        BY <2>1, <3>1, <3>2, <3>3, <3>4, <3>5, OneMoves
    <2>4. QED
      BY <2>2, <2>3
  <1>11. ASSUME NEW p \in Processes, NEW mode \in L!Modes, L!run(p, mode) PROVE LifeInv'
    <2>1. PICK n \in 1..Versions :
            L!Set(p, [L!Down EXCEPT !.mode = mode, !.embeds = n, !.pc = IF mode = "smtp-only" THEN "build" ELSE "open"])
      BY <1>11 DEF L!run
    <2> DEFINE b == IF mode = "smtp-only" THEN "build" ELSE "open"
               r == [L!Down EXCEPT !.mode = mode, !.embeds = n, !.pc = b]
    <2>2. L!Set(p, r) /\ UNCHANGED <<schema, recorded>> /\ starts' \in 0..MaxStarts /\ n \in 0..Versions
      BY <1>11, <2>1 DEF L!run, L!Database, L!LifecycleAssumption, LifeInv
    <2>3. b \in {"build", "open"} /\ (b = "open" => mode # "smtp-only") /\ (b = "build" => mode = "smtp-only")
      OBVIOUS
    <2> HIDE DEF b
    <2>4. r \in ProcRecord
      BY <2>2, <2>3, DownOK DEF ProcRecord
    <2>5. SchemaOK(r) /\ StageOK(r)
      BY <2>2, <2>3 DEF L!Down, SchemaOK, StageOK, NeededBy
    <2>6. ExitOK(r)
      BY <2>2, <2>3 DEF L!Down, ExitOK
    <2> HIDE DEF r
    <2>7. QED
      BY <2>2, <2>4, <2>5, <2>6, OneMoves
  <1>12. ASSUME NEW p \in Processes, NEW c \in L!Components, L!ComponentReturns(p, c) PROVE LifeInv'
    <2> DEFINE q == proc[p]
    <2>1. /\ q \in ProcRecord /\ SchemaOK(q) /\ StageOK(q) /\ ExitOK(q)
          /\ UNCHANGED <<schema, recorded>> /\ starts' \in 0..MaxStarts
          /\ q.comp[c] = "running" /\ q.pc \in {"up", "wait"}
          /\ \/ L!Set(p, [q EXCEPT !.comp[c] = "nil"])
             \/ L!Set(p, [q EXCEPT !.comp[c] = "done", !.errs = q.errs \cup {c}, !.failed = TRUE])
      BY <1>12 DEF L!ComponentReturns, L!Database, L!At, LifeInv, StageOK
    <2>2. CASE L!Set(p, [q EXCEPT !.comp[c] = "nil"])
      <3> DEFINE r == [q EXCEPT !.comp[c] = "nil"]
      <3>1. L!Set(p, r)
        BY <1>12, <2>1, <2>2 DEF ProcRecord
      <3> HIDE DEF q
      <3>2. r \in ProcRecord
        BY <2>1, <3>1 DEF ProcRecord
      <3>3. SchemaOK(r)
        BY <2>1, <3>1 DEF SchemaOK, ProcRecord
      <3>4. StageOK(r)
        BY <2>1, <3>1 DEF StageOK, NeededBy, ProcRecord
      <3>5. ExitOK(r)
        BY <2>1, <3>1 DEF ExitOK, ProcRecord
      <3> HIDE DEF r
      <3>6. QED
        BY <2>1, <3>1, <3>2, <3>3, <3>4, <3>5, OneMoves
    <2>3. CASE L!Set(p, [q EXCEPT !.comp[c] = "done", !.errs = q.errs \cup {c}, !.failed = TRUE])
      <3> DEFINE r == [q EXCEPT !.comp[c] = "done", !.errs = q.errs \cup {c}, !.failed = TRUE]
      <3>1. L!Set(p, r)
        BY <1>12, <2>1, <2>3 DEF ProcRecord
      <3> HIDE DEF q
      <3>2. r \in ProcRecord
        BY <2>1, <3>1 DEF ProcRecord
      <3>3. SchemaOK(r)
        BY <2>1, <3>1 DEF SchemaOK, ProcRecord
      <3>4. StageOK(r)
        BY <2>1, <3>1 DEF StageOK, NeededBy, ProcRecord
      <3>5. ExitOK(r)
        BY <2>1, <3>1 DEF ExitOK, ProcRecord
      <3> HIDE DEF r
      <3>6. QED
        BY <2>1, <3>1, <3>2, <3>3, <3>4, <3>5, OneMoves
    <2>4. QED
      BY <2>1, <2>2, <2>3
  <1>13. ASSUME NEW p \in Processes, NEW c \in L!Components, L!ComponentDone(p, c) PROVE LifeInv'
    <2> DEFINE q == proc[p]
    <2>1. /\ q \in ProcRecord /\ SchemaOK(q) /\ StageOK(q) /\ ExitOK(q)
          /\ UNCHANGED <<schema, recorded>> /\ starts' \in 0..MaxStarts
          /\ q.comp[c] = "nil" /\ q.pc \in {"up", "wait"}
          /\ \E e \in {q.errs, q.errs \cup {c}} : L!Set(p, [q EXCEPT !.comp[c] = "done", !.errs = e])
      BY <1>13 DEF L!ComponentDone, L!Database, L!At, LifeInv, StageOK
    <2>2. PICK e \in {q.errs, q.errs \cup {c}} : L!Set(p, [q EXCEPT !.comp[c] = "done", !.errs = e])
      BY <2>1
    <2>3. CASE TRUE
      <3> DEFINE r == [q EXCEPT !.comp[c] = "done", !.errs = e]
      <3>1. L!Set(p, r) /\ e \in SUBSET L!Components /\ (q.errs # {} => e # {})
        BY <2>1, <2>2 DEF ProcRecord
      <3> HIDE DEF q
      <3>2. r \in ProcRecord
        BY <2>1, <3>1 DEF ProcRecord
      <3>3. SchemaOK(r)
        BY <2>1, <3>1 DEF SchemaOK, ProcRecord
      <3>4. StageOK(r)
        BY <2>1, <3>1 DEF StageOK, NeededBy, ProcRecord
      <3>5. ExitOK(r)
        BY <2>1, <3>1 DEF ExitOK, ProcRecord
      <3> HIDE DEF r
      <3>6. QED
        BY <2>1, <3>1, <3>2, <3>3, <3>4, <3>5, OneMoves
    <2>4. QED
      BY <2>3
  <1>14. ASSUME NEW p \in Processes, L!runComponents(p) PROVE LifeInv'
    <2> DEFINE q == proc[p]
    <2>1. /\ q \in ProcRecord /\ SchemaOK(q) /\ StageOK(q) /\ ExitOK(q)
          /\ UNCHANGED <<schema, recorded>> /\ starts' \in 0..MaxStarts
          /\ q.pc = "up"
          /\ \/ q.signalled /\ L!Set(p, [q EXCEPT !.pc = "wait", !.canceled = TRUE])
             \/ \E c \in q.errs : L!Set(p, [q EXCEPT !.pc = "wait", !.canceled = TRUE, !.all = TRUE, !.errs = q.errs \ {c}])
      BY <1>14 DEF L!runComponents, L!Database, L!At, LifeInv
    <2>2. CASE q.signalled /\ L!Set(p, [q EXCEPT !.pc = "wait", !.canceled = TRUE])
      <3> DEFINE r == [q EXCEPT !.pc = "wait", !.canceled = TRUE]
      <3>1. L!Set(p, r) /\ q.signalled
        BY <1>14, <2>1, <2>2 DEF ProcRecord
      <3> HIDE DEF q
      <3>2. r \in ProcRecord
        BY <2>1, <3>1 DEF ProcRecord
      <3>3. SchemaOK(r)
        BY <2>1, <3>1 DEF SchemaOK, ProcRecord
      <3>4. StageOK(r)
        BY <2>1, <3>1 DEF StageOK, NeededBy, ProcRecord
      <3>5. ExitOK(r)
        BY <2>1, <3>1 DEF ExitOK, ProcRecord
      <3> HIDE DEF r
      <3>6. QED
        BY <2>1, <3>1, <3>2, <3>3, <3>4, <3>5, OneMoves
    <2>3. ASSUME NEW c \in q.errs, L!Set(p, [q EXCEPT !.pc = "wait", !.canceled = TRUE, !.all = TRUE, !.errs = q.errs \ {c}]) PROVE LifeInv'
      <3> DEFINE r == [q EXCEPT !.pc = "wait", !.canceled = TRUE, !.all = TRUE, !.errs = q.errs \ {c}]
      <3>1. L!Set(p, r)
        BY <1>14, <2>1, <2>3 DEF ProcRecord
      <3> HIDE DEF q
      <3>2. r \in ProcRecord
        BY <2>1, <3>1 DEF ProcRecord
      <3>3. SchemaOK(r)
        BY <2>1, <3>1 DEF SchemaOK, ProcRecord
      <3>4. StageOK(r)
        BY <2>1, <3>1 DEF StageOK, NeededBy, ProcRecord
      <3>5. ExitOK(r)
        BY <2>1, <3>1 DEF ExitOK, ProcRecord
      <3> HIDE DEF r
      <3>6. QED
        BY <2>1, <3>1, <3>2, <3>3, <3>4, <3>5, OneMoves
    <2>4. QED
      BY <2>1, <2>2, <2>3
  <1>15. ASSUME NEW p \in Processes, L!Close(p) PROVE LifeInv'
    <2> DEFINE q == proc[p]
    <2>1. /\ q \in ProcRecord /\ SchemaOK(q) /\ StageOK(q) /\ ExitOK(q)
          /\ UNCHANGED <<schema, recorded>> /\ starts' \in 0..MaxStarts
          /\ q.pc = "close" /\ L!Set(p, IF q.opened > 0 THEN [q EXCEPT !.opened = q.opened - 1] ELSE L!Down)
      BY <1>15 DEF L!Close, L!Database, L!At, LifeInv
    <2>2. CASE q.opened > 0
      <3> DEFINE r == [q EXCEPT !.opened = q.opened - 1]
      <3>1. L!Set(p, r) /\ q.opened - 1 \in 0..3 /\ q.opened > 0
        BY <1>15, <2>1, <2>2 DEF ProcRecord
      <3> HIDE DEF q
      <3>2. r \in ProcRecord
        BY <2>1, <3>1 DEF ProcRecord
      <3>3. SchemaOK(r)
        BY <2>1, <3>1 DEF SchemaOK, ProcRecord
      <3>4. StageOK(r)
        BY <2>1, <3>1 DEF StageOK, NeededBy, ProcRecord
      <3>5. ExitOK(r)
        BY <2>1, <3>1 DEF ExitOK, ProcRecord
      <3> HIDE DEF r
      <3>6. QED
        BY <2>1, <3>1, <3>2, <3>3, <3>4, <3>5, OneMoves
    <2>3. CASE ~(q.opened > 0)
      BY <2>1, <2>3, DownOK, OneMoves
    <2>4. QED
      BY <2>2, <2>3
  <1>16. ASSUME NEW p \in Processes, L!Kill(p) PROVE LifeInv'
    BY <1>16, DownOK, OneMoves DEF L!Kill, L!Database, LifeInv
  <1>17. ASSUME NEW p \in Processes, L!applyOne(p) PROVE LifeInv'
    <2> DEFINE q == proc[p]
               m == q.at
    <2>1. /\ q \in ProcRecord /\ SchemaOK(q) /\ StageOK(q) /\ ExitOK(q) /\ q.pc = "tx"
          /\ schema \in Seq(Nat) /\ schema = [i \in 1..Len(schema) |-> i] /\ recorded = 1..Len(schema)
      BY <1>17 DEF L!applyOne, L!At, LifeInv
    <2>2. CASE m \in recorded
      <3> DEFINE r == [q EXCEPT !.pc = "close", !.exit = "error"]
      <3>1. L!Set(p, r) /\ UNCHANGED <<schema, recorded>> /\ starts' \in 0..MaxStarts
        BY <1>17, <2>2 DEF L!applyOne, L!Database, LifeInv
      <3> HIDE DEF q
      <3>2. r \in ProcRecord
        BY <2>1 DEF ProcRecord
      <3>3. SchemaOK(r)
        BY <2>1 DEF SchemaOK, ProcRecord
      <3>4. StageOK(r)
        BY <2>1 DEF StageOK, NeededBy, ProcRecord
      <3>5. ExitOK(r)
        BY <2>1 DEF ExitOK, ProcRecord
      <3> HIDE DEF r
      <3>6. QED
        BY <3>1, <3>2, <3>3, <3>4, <3>5, OneMoves
    <2>3. CASE m \notin recorded
      <3> DEFINE r == [q EXCEPT !.pc = "apply", !.applied = q.applied \cup {m}]
      <3>1. L!Set(p, r) /\ schema' = Append(schema, m) /\ recorded' = recorded \cup {m}
        BY <1>17, <2>3 DEF L!applyOne
      <3>2. PICK k \in 0..Len(schema) : q.applied = 1..k /\ m = k + 1 /\ m <= Versions
        BY <2>1 DEF SchemaOK
      <3>3. k = Len(schema) /\ m = Len(schema) + 1 /\ Len(schema) \in Nat
        <4>1. Len(schema) \in Nat
          BY <2>1
        <4>2. k + 1 \notin 1..Len(schema)
          BY <2>1, <2>3, <3>2
        <4>3. QED
          BY <3>2, <4>1, <4>2
      <3>4. /\ schema' \in Seq(Nat) /\ Len(schema') = Len(schema) + 1
            /\ schema' = [i \in 1..Len(schema') |-> i] /\ recorded' = 1..Len(schema')
        <4>1. schema' \in Seq(Nat) /\ Len(schema') = Len(schema) + 1
          BY <2>1, <3>1, <3>3
        <4>2. \A i \in 1..Len(schema') : schema'[i] = i
          BY <2>1, <3>1, <3>3, <4>1
        <4>3. schema' = [i \in 1..Len(schema') |-> i]
          BY <4>1, <4>2
        <4>4. recorded' = 1..Len(schema')
          BY <2>1, <3>1, <3>3, <4>1
        <4>5. QED
          BY <4>1, <4>3, <4>4
      <3>5. q.applied \cup {m} = 1..Len(schema') /\ q.applied \cup {m} \in SUBSET Nat
        BY <3>2, <3>3, <3>4
      <3> HIDE DEF q, m
      <3>6. r \in ProcRecord
        BY <2>1, <3>5 DEF ProcRecord
      <3>7. r.pc = "apply" /\ r.applied = 1..Len(schema')
        BY <2>1, <3>5 DEF ProcRecord
      <3>8. StageOK(r)
        BY <2>1 DEF StageOK, NeededBy, ProcRecord
      <3>9. ExitOK(r)
        BY <2>1 DEF ExitOK, ProcRecord
      <3> HIDE DEF r
      <3>10. ASSUME NEW x \in Processes PROVE proc'[x] \in ProcRecord /\ SchemaOK(proc[x])' /\ StageOK(proc[x])' /\ ExitOK(proc[x])'
        <4>1. CASE x = p
          <5>1. proc'[x] = r
            BY <3>1, <4>1 DEF L!Set, LifeInv
          <5>2. SchemaOK(proc[x])'
            BY <3>3, <3>4, <3>7, <5>1 DEF SchemaOK
          <5>3. QED
            BY <3>6, <3>8, <3>9, <5>1, <5>2 DEF StageOK, ExitOK, NeededBy
        <4>2. CASE x # p
          <5>1. proc'[x] = proc[x] /\ proc[x] \in ProcRecord /\ SchemaOK(proc[x]) /\ StageOK(proc[x]) /\ ExitOK(proc[x])
            BY <3>1, <4>2 DEF L!Set, LifeInv
          <5>2. SchemaOK(proc[x])'
            BY <3>3, <3>4, <5>1 DEF SchemaOK
          <5>3. QED
            BY <5>1, <5>2 DEF StageOK, ExitOK, NeededBy
        <4>3. QED
          BY <4>1, <4>2
      <3>11. QED
        <4>1. starts' \in 0..MaxStarts /\ Len(schema') <= Versions
          BY <1>17, <3>2, <3>3, <3>4 DEF LifeInv, L!applyOne
        <4>2. QED
          BY <3>1, <3>4, <3>10, <4>1 DEF LifeInv, L!Set
    <2>4. QED
      BY <2>2, <2>3
  <1>18. QED
    BY <1>1, <1>2, <1>3, <1>4, <1>5, <1>6, <1>7, <1>8, <1>9, <1>10, <1>11, <1>12, <1>13, <1>14, <1>15, <1>16, <1>17 DEF L!Next

(* The processes by themselves are orderly.                                 *)
LEMMA LifecycleAlone ==
  ASSUME L!LifecycleAssumption PROVE L!Spec => [](L!TypeOK /\ L!LifecycleIsSound)
  <1>1. LifeInv => L!SchemaIsOrderly
    <2> SUFFICES ASSUME LifeInv PROVE L!SchemaIsOrderly
      OBVIOUS
    <2>1. recorded = L!ToSet(schema)
      BY DEF LifeInv, L!ToSet
    <2>2. QED
      BY <2>1 DEF LifeInv, L!SchemaIsOrderly, L!Busy, L!loadMigrations, StageOK, SchemaOK
  <1>2. LifeInv => L!ShutdownIsOrderly
    BY DEF LifeInv, L!ShutdownIsOrderly, L!Busy, L!Needed, L!Resources, StageOK, NeededBy, ExitOK
  <1>3. LifeInv => L!TypeOK
    <2> SUFFICES ASSUME LifeInv PROVE L!TypeOK
      OBVIOUS
    <2>1. schema \in Seq(1..Versions) /\ recorded \subseteq 1..Versions /\ starts \in 0..MaxStarts
      <3>1. /\ schema \in Seq(Nat) /\ Len(schema) <= Versions /\ \A i \in 1..Len(schema) : schema[i] = i
            /\ recorded = 1..Len(schema) /\ starts \in 0..MaxStarts
        BY DEF LifeInv
      <3>2. Len(schema) \in Nat /\ Versions \in Nat
        BY <3>1 DEF L!LifecycleAssumption
      <3>3. \A i \in 1..Len(schema) : schema[i] \in 1..Versions
        BY <3>1, <3>2
      <3>4. QED
        BY <3>1, <3>2, <3>3
    <2>2. QED
      BY <2>1 DEF LifeInv, ProcRecord, L!TypeOK, L!Resources
  <1>4. QED
    BY LifeInit, LifeStep, <1>1, <1>2, <1>3, PTL DEF L!Spec, L!LifecycleIsSound

-----------------------------------------------------------------------------
(* SMTP sessions.                                                           *)

(* What a client was told is what its session holds: between transactions    *)
(* an empty envelope, within one of the submission listener a tenant, and    *)
(* nothing once the session is over.                                        *)
SessionOK(c) ==
  /\ told[c].env = sess[c].env /\ told[c].tenant = sess[c].tenant
  /\ sess[c].state # "mailReceived" => sess[c].env = I!NoEnvelope
  /\ sess[c].state = "closed" => sess[c].tenant = "none"
  /\ RequireAuth /\ sess[c].state = "mailReceived" => sess[c].tenant # "none"

OpenConns == {c \in Conns : sess[c].state # "closed"}
OneSlotEach == IsFiniteSet(OpenConns) /\ slots = Cardinality(OpenConns)
MessageOK == I!MessageIsTheDialogue /\ I!RecipientsAreReached
Confirmed == [env: I!Envelope, tenant: Tenants \cup {"none"}]

SmtpInv == I!TypeOK /\ (\A c \in Conns : SessionOK(c)) /\ OneSlotEach /\ MessageOK

(* The instance counts the way FiniteSets does.                             *)
LEMMA SlotCount == \A X : I!Cardinality(X) = Cardinality(X)
  BY DEF I!Cardinality, Cardinality

LEMMA NothingIsTyped ==
  /\ I!NoEnvelope \in I!Envelope /\ I!NewSession \in I!Session /\ I!NoSession \in I!Session
  /\ I!ToldNothing \in Confirmed /\ I!NoSession.state = "closed" /\ I!NewSession.state = "connected"
  /\ I!NoSession.env = I!NoEnvelope /\ I!NewSession.env = I!NoEnvelope /\ I!ToldNothing.env = I!NoEnvelope
  /\ I!NoSession.tenant = "none" /\ I!NewSession.tenant = "none" /\ I!ToldNothing.tenant = "none"
  <1>1. I!NoEnvelope \in I!Envelope
    BY DEF I!NoEnvelope, I!Envelope, I!ReversePaths, I!NoFrom
  <1>2. QED
    BY <1>1 DEF I!NewSession, I!NoSession, I!Session, I!ToldNothing, Confirmed

(* A step that hands nothing to the sink leaves nothing to object to.       *)
LEMMA NothingIsSent ==
  /\ I!NoMessage.env = I!NoEnvelope /\ I!NoMessage.told.env = I!NoEnvelope /\ I!NoMessage.tenant = "none"
  /\ I!NoMessage.told.tenant = "none" /\ I!NoMessage.visible = {} /\ DOMAIN I!NoMessage.bcc = {}
  /\ DOMAIN I!NoMessage.env.rcpt = {}
  BY DEF I!NoMessage, I!ToldNothing, I!NoEnvelope

(* The invariant holds of a listener without connections.                   *)
LEMMA SmtpInit == ASSUME I!SmtpServerAssumption PROVE I!Init => SmtpInv
  <1> SUFFICES ASSUME I!Init PROVE SmtpInv
    OBVIOUS
  <1>2. I!TypeOK
    BY NothingIsTyped DEF I!Init, I!TypeOK, I!SmtpServerAssumption, Confirmed
  <1>3. \A c \in Conns : sess[c] = I!NoSession /\ told[c] = I!ToldNothing
    BY DEF I!Init
  <1>4. OpenConns = {}
    BY <1>3, NothingIsTyped DEF OpenConns
  <1>5. OneSlotEach
    BY <1>4, FS_EmptySet DEF I!Init, OneSlotEach
  <1>6. \A c \in Conns : SessionOK(c)
    BY <1>3, NothingIsTyped DEF SessionOK
  <1>7. MessageOK
    BY NothingIsSent DEF I!Init, MessageOK, I!MessageIsTheDialogue, I!RecipientsAreReached, I!Shown, I!Hidden
  <1>9. QED
    BY <1>2, <1>5, <1>6, <1>7 DEF SmtpInv

(* A step of the session c, in which it stays open. *)
LEMMA SessionMoves ==
  ASSUME SmtpInv, NEW c \in Conns, sess[c].state # "closed", slots' = slots,
         NEW s \in I!Session, sess' = [sess EXCEPT ![c] = s], s.state # "closed",
         NEW e \in Confirmed, told' = [told EXCEPT ![c] = e], s.env = e.env, s.tenant = e.tenant,
         s.state # "mailReceived" => s.env = I!NoEnvelope,
         RequireAuth /\ s.state = "mailReceived" => s.tenant # "none",
         MessageOK'
  PROVE  SmtpInv'
  <1>1. I!TypeOK'
    BY DEF SmtpInv, I!TypeOK, Confirmed
  <1>2. \A d \in Conns : sess'[d] = (IF d = c THEN s ELSE sess[d]) /\ told'[d] = (IF d = c THEN e ELSE told[d])
    BY DEF SmtpInv, I!TypeOK
  <1>3. \A d \in Conns : SessionOK(d)'
    BY <1>2 DEF SmtpInv, SessionOK
  <1>4. OpenConns' = OpenConns
    BY <1>2 DEF OpenConns
  <1>5. OneSlotEach'
    BY <1>4 DEF SmtpInv, OneSlotEach
  <1>6. QED
    BY <1>1, <1>3, <1>5 DEF SmtpInv

(* RSET empties the envelope and keeps who is authenticated.                *)
LEMMA ResetIsEmpty ==
  ASSUME NEW s \in I!Session
  PROVE  /\ I!resetTransaction(s) \in I!Session /\ I!resetTransaction(s).env = I!NoEnvelope
         /\ I!resetTransaction(s).tenant = s.tenant
         /\ I!resetTransaction(s).state = IF s.state = "mailReceived" THEN "greeted" ELSE s.state
  BY NothingIsTyped DEF I!resetTransaction, I!Session

LEMMA ForgetIsEmpty ==
  ASSUME NEW t \in Confirmed
  PROVE  /\ [t EXCEPT !.env = I!NoEnvelope] \in Confirmed /\ [t EXCEPT !.env = I!NoEnvelope].env = I!NoEnvelope
         /\ [t EXCEPT !.env = I!NoEnvelope].tenant = t.tenant
  BY NothingIsTyped DEF Confirmed

(* The message of a session in a transaction, once Storable took it, is the  *)
(* client's and reaches its recipients.                                     *)
LEMMA SinkIsFaithful ==
  ASSUME I!TypeOK, NEW c \in Conns, SessionOK(c), sess[c].state = "mailReceived",
         NEW visible, I!Sink(c, visible)
  PROVE  MessageOK'
  <1> DEFINE env == sess[c].env
             bcc == I!submissionEnvelope(env, visible)
  <1>1. /\ sunk'.env = env /\ sunk'.told = told[c] /\ sunk'.tenant = sess[c].tenant /\ sunk'.visible = visible
        /\ sunk'.bcc = bcc /\ I!Storable(visible, bcc)
    BY DEF I!Sink
  <1>2. sess[c].tenant \in Tenants \cup {"none"}
    BY DEF I!TypeOK, I!Session
  <1>3. I!MessageIsTheDialogue'
    BY <1>1, <1>2 DEF SessionOK, I!MessageIsTheDialogue
  <1>4. DOMAIN bcc = {n \in DOMAIN env.rcpt : \A v \in visible : v.box # env.rcpt[n].box}
        /\ \A i \in DOMAIN bcc : bcc[i] = env.rcpt[i]
    BY DEF I!submissionEnvelope, I!normalizeMailboxKey
  <1> HIDE DEF bcc, env
  <1>5. I!RecipientsAreReached'
    <2>1. \A i, j \in DOMAIN bcc : bcc[i] = bcc[j] => i = j
      BY <1>1 DEF I!Storable
    <2>2. I!Shown' = {a.box : a \in visible} /\ I!Hidden' = {bcc[i].box : i \in DOMAIN bcc}
      BY <1>1 DEF I!Shown, I!Hidden
    <2>3. I!Shown' \cap I!Hidden' = {}
      BY <1>4, <2>2
    <2>4. ASSUME NEW i \in DOMAIN env.rcpt PROVE env.rcpt[i].box \in I!Shown' \cup I!Hidden'
      <3>1. CASE \E v \in visible : v.box = env.rcpt[i].box
        BY <2>2, <3>1
      <3>2. CASE ~\E v \in visible : v.box = env.rcpt[i].box
        <4>1. i \in DOMAIN bcc /\ bcc[i] = env.rcpt[i]
          BY <1>4, <3>2
        <4> QED
          BY <2>2, <4>1
      <3> QED
        BY <3>1, <3>2
    <2> QED
      BY <1>1, <2>1, <2>3, <2>4 DEF I!RecipientsAreReached
  <1> QED
    BY <1>3, <1>5 DEF MessageOK

(* Every command and every end of a session keeps the invariant.            *)
LEMMA SmtpStep == ASSUME I!SmtpServerAssumption PROVE SmtpInv /\ [I!Next]_I!vars => SmtpInv'
  <1> SUFFICES ASSUME SmtpInv, [I!Next]_I!vars PROVE SmtpInv'
    OBVIOUS
  <1>0. sunk' = I!NoMessage => MessageOK'
    BY NothingIsSent DEF MessageOK, I!MessageIsTheDialogue, I!RecipientsAreReached, I!Shown, I!Hidden
  <1>1. CASE UNCHANGED I!vars
    <2>1. MessageOK'
      BY <1>1 DEF I!vars, SmtpInv, MessageOK, I!MessageIsTheDialogue, I!RecipientsAreReached, I!Shown, I!Hidden
    <2>2. QED
      BY <1>1, <2>1 DEF I!vars, SmtpInv, I!TypeOK, SessionOK, OneSlotEach, OpenConns
  <1>11. ASSUME NEW c \in Conns
         PROVE  /\ sess[c] \in I!Session /\ told[c] \in Confirmed /\ SessionOK(c)
                /\ told = [told EXCEPT ![c] = told[c]]
    BY DEF SmtpInv, I!TypeOK, Confirmed
  <1>2. ASSUME NEW c \in Conns, I!Serve(c) PROVE SmtpInv'
    <2>1. /\ sess[c].state = "closed" /\ slots < MaxConnections /\ slots' = slots + 1
          /\ sess' = [sess EXCEPT ![c] = I!NewSession] /\ told' = told /\ sunk' = I!NoMessage
      BY <1>2 DEF I!Serve, I!Open, I!tryAcquire
    <2>3. I!TypeOK'
      BY <2>1, NothingIsTyped DEF SmtpInv, I!TypeOK, I!SmtpServerAssumption
    <2>4. \A d \in Conns : sess'[d] = (IF d = c THEN I!NewSession ELSE sess[d])
      BY <2>1 DEF SmtpInv, I!TypeOK
    <2>5. \A d \in Conns : SessionOK(d)'
      BY <2>1, <2>4, NothingIsTyped DEF SmtpInv, SessionOK
    <2>6. OpenConns' = OpenConns \cup {c} /\ c \notin OpenConns
      BY <2>1, <2>4, NothingIsTyped DEF OpenConns
    <2>7. OneSlotEach'
      BY <2>1, <2>6, FS_AddElement DEF SmtpInv, OneSlotEach
    <2>8. QED
      BY <1>0, <2>1, <2>3, <2>5, <2>7 DEF SmtpInv
  <1>3. ASSUME NEW c \in Conns, I!HandleConnectionWithConfig(c) PROVE SmtpInv'
    <2>1. /\ sess[c].state # "closed" /\ slots' = slots - 1 /\ sunk' = I!NoMessage
          /\ sess' = [sess EXCEPT ![c] = I!NoSession] /\ told' = [told EXCEPT ![c] = I!ToldNothing]
      BY <1>3 DEF I!HandleConnectionWithConfig, I!handle, I!Open
    <2>6. \A d \in Conns : /\ sess'[d] = (IF d = c THEN I!NoSession ELSE sess[d])
                           /\ told'[d] = (IF d = c THEN I!ToldNothing ELSE told[d])
      BY <2>1 DEF SmtpInv, I!TypeOK
    <2>2. OpenConns' = OpenConns \ {c} /\ c \in OpenConns
      BY <2>1, <2>6, NothingIsTyped DEF OpenConns
    <2>3. OneSlotEach' /\ slots' \in Nat
      <3>1. IsFiniteSet(OpenConns) /\ slots = Cardinality(OpenConns)
        BY DEF SmtpInv, OneSlotEach
      <3>2. IsFiniteSet(OpenConns') /\ Cardinality(OpenConns') = Cardinality(OpenConns) - 1
        BY <2>2, <3>1, FS_RemoveElement
      <3>3. Cardinality(OpenConns') \in Nat
        BY <3>2, FS_CardinalityType
      <3>4. QED
        BY <2>1, <3>1, <3>2, <3>3 DEF OneSlotEach
    <2>4. I!TypeOK'
      BY <2>1, <2>3, NothingIsTyped DEF SmtpInv, I!TypeOK, I!SmtpServerAssumption, Confirmed
    <2>5. \A d \in Conns : SessionOK(d)'
      BY <2>6, NothingIsTyped DEF SmtpInv, SessionOK
    <2>7. QED
      BY <1>0, <2>1, <2>3, <2>4, <2>5 DEF SmtpInv
  <1>4. ASSUME NEW c \in Conns, I!EHLO(c) PROVE SmtpInv'
    <2> DEFINE t == I!resetTransaction(sess[c])
               s == [t EXCEPT !.state = "greeted"]
               e == [told[c] EXCEPT !.env = I!NoEnvelope]
    <2>1. /\ sess[c].state # "closed" /\ slots' = slots /\ sunk' = I!NoMessage
          /\ sess' = [sess EXCEPT ![c] = s] /\ told' = [told EXCEPT ![c] = e]
      BY <1>4 DEF I!EHLO, I!Open, I!Forget, SmtpInv, I!TypeOK
    <2>2. t \in I!Session /\ t.env = I!NoEnvelope /\ t.tenant = sess[c].tenant
      BY <1>11, ResetIsEmpty
    <2> HIDE DEF t
    <2>3. s \in I!Session /\ s.env = I!NoEnvelope /\ s.state = "greeted" /\ s.tenant = sess[c].tenant
      BY <2>2 DEF I!Session
    <2>5. e \in Confirmed /\ e.env = I!NoEnvelope /\ e.tenant = sess[c].tenant
      BY <1>11, ForgetIsEmpty DEF SessionOK
    <2> HIDE DEF s, e
    <2>4. QED
      BY <1>0, <2>1, <2>2, <2>3, <2>5, SessionMoves
  <1>5. ASSUME NEW c \in Conns, I!RSET(c) PROVE SmtpInv'
    <2> DEFINE s == I!resetTransaction(sess[c])
               e == [told[c] EXCEPT !.env = I!NoEnvelope]
    <2>1. /\ sess[c].state # "closed" /\ slots' = slots /\ sunk' = I!NoMessage
          /\ sess' = [sess EXCEPT ![c] = s] /\ told' = [told EXCEPT ![c] = e]
      BY <1>5 DEF I!RSET, I!Open, I!Forget, SmtpInv, I!TypeOK
    <2>2. /\ s \in I!Session /\ s.env = I!NoEnvelope /\ s.state # "closed" /\ s.state # "mailReceived"
          /\ s.tenant = sess[c].tenant
      BY <1>11, <2>1, ResetIsEmpty
    <2>5. e \in Confirmed /\ e.env = I!NoEnvelope /\ e.tenant = sess[c].tenant
      BY <1>11, ForgetIsEmpty DEF SessionOK
    <2> HIDE DEF s, e
    <2>3. QED
      BY <1>0, <2>1, <2>2, <2>5, SessionMoves
  <1>6. ASSUME NEW c \in Conns, I!AUTH(c) PROVE SmtpInv'
    <2>1. PICK t \in Tenants : sess' = [sess EXCEPT ![c].tenant = t] /\ told' = [told EXCEPT ![c].tenant = t]
      BY <1>6 DEF I!AUTH
    <2> DEFINE s == [sess[c] EXCEPT !.tenant = t]
               e == [told[c] EXCEPT !.tenant = t]
    <2>2. /\ sess[c].state # "closed" /\ slots' = slots /\ sunk' = I!NoMessage
          /\ sess' = [sess EXCEPT ![c] = s] /\ told' = [told EXCEPT ![c] = e]
      BY <1>6, <2>1 DEF I!AUTH, I!Open, SmtpInv, I!TypeOK
    <2>3. s \in I!Session /\ s.env = sess[c].env /\ s.state = sess[c].state /\ s.tenant = t /\ t # "none"
      BY <1>11 DEF I!Session, I!SmtpServerAssumption
    <2>5. e \in Confirmed /\ e.env = sess[c].env /\ e.tenant = t
      BY <1>11 DEF Confirmed, SessionOK
    <2> HIDE DEF s, e
    <2>4. QED
      <3>1. s.state # "closed" /\ (s.state # "mailReceived" => s.env = I!NoEnvelope)
        BY <1>11, <2>2, <2>3 DEF SessionOK
      <3>3. QED
        BY <1>0, <2>2, <2>3, <2>5, <3>1, SessionMoves
  <1>7. ASSUME NEW c \in Conns, I!MAIL(c) PROVE SmtpInv'
    <2>1. PICK f \in I!ReversePaths \ {I!NoFrom} :
            /\ sess' = [sess EXCEPT ![c].env.from = f, ![c].state = "mailReceived"]
            /\ told' = [told EXCEPT ![c].env = [from |-> f, rcpt |-> <<>>]]
      BY <1>7 DEF I!MAIL
    <2> DEFINE v == [from |-> f, rcpt |-> <<>>]
               s == [sess[c] EXCEPT !.env = v, !.state = "mailReceived"]
               e == [told[c] EXCEPT !.env = v]
    <2>2. /\ sess[c].state = "greeted" /\ slots' = slots /\ sunk' = I!NoMessage
          /\ (RequireAuth => sess[c].tenant # "none") /\ sess[c].env = I!NoEnvelope
      BY <1>7, <1>11 DEF I!MAIL, I!Open, SessionOK
    <2>3. v \in I!Envelope
      BY DEF I!Envelope
    <2>4. sess' = [sess EXCEPT ![c] = s]
      BY <2>1, <2>2 DEF SmtpInv, I!TypeOK, I!Session, I!NoEnvelope
    <2>5. told' = [told EXCEPT ![c] = e]
      BY <2>1 DEF SmtpInv, I!TypeOK
    <2> HIDE DEF v
    <2>6. s \in I!Session /\ s.env = v /\ s.state = "mailReceived" /\ s.tenant = sess[c].tenant
      BY <1>11, <2>3 DEF I!Session
    <2>8. e \in Confirmed /\ e.env = v /\ e.tenant = sess[c].tenant
      BY <1>11, <2>3 DEF Confirmed, SessionOK
    <2> HIDE DEF s, e
    <2>7. QED
      BY <1>0, <2>2, <2>4, <2>5, <2>6, <2>8, SessionMoves
  <1>8. ASSUME NEW c \in Conns, I!RCPT(c) PROVE SmtpInv'
    <2>1. PICK a \in [box: Boxes, form: I!Paths] :
            /\ sess' = [sess EXCEPT ![c].env.rcpt = Append(@, a)]
            /\ told' = [told EXCEPT ![c].env.rcpt = Append(@, a)]
      BY <1>8 DEF I!RCPT
    <2> DEFINE v == [sess[c].env EXCEPT !.rcpt = Append(sess[c].env.rcpt, a)]
               s == [sess[c] EXCEPT !.env = v]
               e == [told[c] EXCEPT !.env = v]
    <2>2. /\ sess[c].state = "mailReceived" /\ slots' = slots /\ sunk' = I!NoMessage
          /\ (RequireAuth => sess[c].tenant # "none") /\ sess[c].env = told[c].env /\ sess[c].env \in I!Envelope
      BY <1>8, <1>11 DEF I!RCPT, I!Open, I!Session, SessionOK
    <2>3. v \in I!Envelope
      <3>1. a \in I!Address
        BY DEF I!Paths, I!Address, I!Forms
      <3>2. sess[c].env.rcpt \in Seq(I!Address)
        BY <2>2 DEF I!Envelope
      <3>3. Append(sess[c].env.rcpt, a) \in Seq(I!Address)
        BY <3>1, <3>2
      <3>4. QED
        BY <2>2, <3>3 DEF I!Envelope
    <2>4. sess' = [sess EXCEPT ![c] = s]
      BY <2>1, <2>2 DEF SmtpInv, I!TypeOK, I!Session
    <2>5. told' = [told EXCEPT ![c] = e]
      BY <2>1, <2>2 DEF SmtpInv, I!TypeOK
    <2> HIDE DEF v
    <2>6. s \in I!Session /\ s.env = v /\ s.state = "mailReceived" /\ s.tenant = sess[c].tenant
      BY <1>11, <2>2, <2>3 DEF I!Session
    <2>8. e \in Confirmed /\ e.env = v /\ e.tenant = sess[c].tenant
      BY <1>11, <2>3 DEF Confirmed, SessionOK
    <2> HIDE DEF s, e
    <2>7. QED
      BY <1>0, <2>2, <2>4, <2>5, <2>6, <2>8, SessionMoves
  <1>9. ASSUME NEW c \in Conns, I!DATA(c) PROVE SmtpInv'
    <2> DEFINE s == I!resetTransaction(sess[c])
               e == [told[c] EXCEPT !.env = I!NoEnvelope]
    <2>1. /\ sess[c].state = "mailReceived" /\ slots' = slots
          /\ sess' = [sess EXCEPT ![c] = s] /\ told' = [told EXCEPT ![c] = e]
      BY <1>9 DEF I!DATA, I!Open, I!Forget, SmtpInv, I!TypeOK
    <2>2. /\ s \in I!Session /\ s.env = I!NoEnvelope /\ s.state # "closed" /\ s.state # "mailReceived"
          /\ s.tenant = sess[c].tenant
      BY <1>11, <2>1, ResetIsEmpty
    <2>3. e \in Confirmed /\ e.env = I!NoEnvelope /\ e.tenant = sess[c].tenant
      BY <1>11, ForgetIsEmpty DEF SessionOK
    <2> HIDE DEF s, e
    <2>4. MessageOK'
      <3>1. ASSUME NEW visible, I!Sink(c, visible) PROVE MessageOK'
        BY <1>11, <2>1, <3>1, SinkIsFaithful DEF SmtpInv
      <3>2. QED
        BY <1>0, <1>9, <3>1 DEF I!DATA
    <2>5. QED
      BY <2>1, <2>2, <2>3, <2>4, SessionMoves
  <1>10. QED
    BY <1>1, <1>2, <1>3, <1>4, <1>5, <1>6, <1>7, <1>8, <1>9 DEF I!Next

(* The sessions by themselves are separate.                                 *)
LEMMA SessionsAlone ==
  ASSUME I!SmtpServerAssumption PROVE I!Spec => []I!SessionsAreSeparate
  <1>1. SmtpInv => I!SessionsAreSeparate
    BY SlotCount DEF SmtpInv, OneSlotEach, OpenConns, MessageOK, I!SessionsAreSeparate, I!SlotsMatchSessions, I!Open
  <1>2. QED
    BY SmtpInit, SmtpStep, <1>1, PTL DEF I!Spec

-----------------------------------------------------------------------------
(* Sending pools.                                                           *)

Busy == {"check", "gate", "smtp"}

(* A message is pinned to a member that exists, once; a registry's route     *)
(* says what its member is, and a member's kind never changes.               *)
Pinned ==
  /\ Len(pools) <= MaxPools /\ Len(members) <= MaxMembers
  /\ \A msg \in R!MessageIds : sendingMember[msg] <= Len(members)
  /\ accepting.msg # 0 => sendingMember[accepting.msg] = -1

RouteMatches(m, route) ==
  m \in DOMAIN members /\ route.kind = members[m].kind /\ route.identity = (IF members[m].kind = "direct" THEN m ELSE 0)

RegistriesMatch ==
  \A p \in Senders, m \in 1..MaxMembers : R!Known(p, m) => RouteMatches(m, router[p].table[m])

(* The message of a job has its member; past the first check the process     *)
(* knows that member, and past the switch it was on.                         *)
JobOK(p) ==
  job[p].pc \in Busy =>
    /\ job[p].msg # 0 /\ R!MemberOf(p) # -1
    /\ R!MemberOf(p) = 0 => job[p].pc = "smtp"
    /\ R!MemberOf(p) # 0 /\ job[p].pc # "check" => R!Known(p, R!MemberOf(p))
    /\ R!MemberOf(p) # 0 /\ (job[p].pc = "smtp" \/ R!MemberRoutingEnabled(pools, members, R!MemberOf(p))) => live[p]

AttemptOK(a) ==
  /\ a.member = sendingMember[a.msg]
  /\ a.member # 0 => RouteMatches(a.member, [kind |-> a.transport, identity |-> a.identity])

RouteInv ==
  /\ R!TypeOK /\ Pinned /\ RegistriesMatch
  /\ \A p \in Senders : JobOK(p)
  /\ \A a \in rAttempts : AttemptOK(a)

(* The invariant holds before any message was accepted.                     *)
LEMMA RouteInit == ASSUME R!RoutingAssumption PROVE R!Init => RouteInv
  <1> SUFFICES ASSUME R!Init PROVE RouteInv
    OBVIOUS
  <1>1. R!TypeOK
    <2>1. pools \in Seq(BOOLEAN) /\ members \in Seq(R!SendingPoolMember) /\ domain \in 0..MaxPools
      BY DEF R!Init, R!RoutingAssumption
    <2>2. accepting \in [msg: R!MessageIds \union {0}, pool: 0..MaxPools] /\ sendingMember \in [R!MessageIds -> {-1} \union (0..MaxMembers)]
      BY DEF R!Init, R!RoutingAssumption
    <2>3. R!Down \in R!Router
      BY DEF R!Down, R!Router, R!NoRoutes, R!NoRoute, R!MemberRoute, R!RoutingAssumption
    <2>4. router \in [Senders -> R!Router]
          /\ job \in [Senders -> [pc: {"down", "starting", "idle", "check", "gate", "smtp"}, msg: R!MessageIds \union {0}]]
      BY <2>3 DEF R!Init
    <2>5. live \in [Senders -> BOOLEAN]
      BY DEF R!Init
    <2>6. QED
      BY <2>1, <2>2, <2>4, <2>5 DEF R!Init, R!TypeOK
  <1>2. Pinned
    BY DEF R!Init, Pinned, R!RoutingAssumption
  <1>3. RegistriesMatch
    BY DEF R!Init, RegistriesMatch, R!Known, R!Down, R!NoRoutes
  <1>4. \A p \in Senders : JobOK(p)
    BY DEF R!Init, JobOK, Busy
  <1>5. QED
    BY <1>1, <1>2, <1>3, <1>4 DEF R!Init, RouteInv

(* What an operator's command does to the tables. *)
TablesGrow ==
  /\ pools' \in Seq(BOOLEAN) /\ members' \in Seq(R!SendingPoolMember) /\ domain' \in 0..MaxPools
  /\ Len(pools') <= MaxPools /\ Len(members') <= MaxMembers /\ Len(members) <= Len(members')
  /\ \A m \in DOMAIN members : m \in DOMAIN members' /\ members'[m].kind = members[m].kind

(* What an operator changes in the pools leaves accepted routes alone.      *)
LEMMA OperatorMoves ==
  ASSUME R!RoutingAssumption, RouteInv, TablesGrow, R!Operator
  PROVE  RouteInv'
  <1>0. UNCHANGED <<accepting, sendingMember, router, job, rSent, rAttempts>> /\ R!TypeOK
        /\ live' = [p \in Senders |-> live[p] \/ R!Switched(p)]
    BY DEF R!Operator, RouteInv
  <1>1. live' \in [Senders -> BOOLEAN]
    <2>1. \A p \in Senders : (live[p] \/ R!Switched(p)) \in BOOLEAN
      OBVIOUS
    <2>2. QED
      BY <1>0, <2>1
  <1>2. R!TypeOK'
    BY <1>0, <1>1 DEF R!TypeOK, TablesGrow
  <1>3. Pinned'
    BY <1>0 DEF RouteInv, Pinned, TablesGrow, R!TypeOK
  <1>4. \A m, route : RouteMatches(m, route) => RouteMatches(m, route)'
    BY DEF RouteMatches, TablesGrow
  <1>5. RegistriesMatch'
    BY <1>0, <1>4 DEF RouteInv, RegistriesMatch, R!Known
  <1>6. \A a \in rAttempts' : AttemptOK(a)'
    BY <1>0, <1>4 DEF RouteInv, AttemptOK
  <1>7. ASSUME NEW p \in Senders PROVE JobOK(p)'
    <2>1. R!MemberOf(p)' = R!MemberOf(p) /\ (\A m : R!Known(p, m)' <=> R!Known(p, m))
      BY <1>0 DEF R!MemberOf, R!Known
    <2>2. live'[p] <=> live[p] \/ R!Switched(p)
      BY <1>0
    <2>3. job[p].pc \in Busy /\ R!MemberOf(p) # 0 => R!MemberOf(p) \in DOMAIN members' /\ R!MemberOf(p) > 0
      BY <1>0 DEF RouteInv, JobOK, Pinned, TablesGrow, R!MemberOf, R!TypeOK
    <2>4. job[p].pc \in Busy /\ R!MemberOf(p) # 0 /\ R!MemberRoutingEnabled(pools', members', R!MemberOf(p)) => live'[p]
      BY <2>2, <2>3 DEF R!Switched, R!MemberRoutingEnabled
    <2>5. JobOK(p)
      BY DEF RouteInv
    <2>6. job'[p] = job[p]
      BY <1>0
    <2>7. QED
      BY <2>1, <2>2, <2>4, <2>5, <2>6 DEF JobOK
  <1>8. QED
    BY <1>2, <1>3, <1>5, <1>6, <1>7 DEF RouteInv

(* A process moves and the tables and the messages stay. *)
LEMMA ProcessMoves ==
  ASSUME RouteInv, NEW p \in Senders, UNCHANGED <<pools, members, domain, accepting, sendingMember>>,
         NEW rt \in R!Router, router' = [router EXCEPT ![p] = rt],
         NEW pc \in {"down", "starting", "idle", "check", "gate", "smtp"}, NEW msg \in R!MessageIds \union {0},
         R!Goto(p, pc, msg), live' \in [Senders -> BOOLEAN], \A q \in Senders \ {p} : live'[q] = live[q],
         rSent' \in SUBSET R!MessageIds,
         rAttempts' \subseteq [msg: R!MessageIds, member: 0..MaxMembers, transport: {"direct", "relay"}, identity: 0..MaxMembers],
         \A a \in rAttempts' \ rAttempts : AttemptOK(a),
         \A m \in 1..MaxMembers : rt.table[m] # R!NoRoute => RouteMatches(m, rt.table[m]),
         JobOK(p)'
  PROVE  RouteInv'
  <1>1. R!TypeOK
    BY DEF RouteInv
  <1>2. job' = [job EXCEPT ![p] = [pc |-> pc, msg |-> msg]]
    BY DEF R!Goto
  <1>3. R!TypeOK'
    BY <1>1, <1>2 DEF R!TypeOK
  <1>4. Pinned'
    BY DEF RouteInv, Pinned
  <1>5. \A m, route : RouteMatches(m, route) => RouteMatches(m, route)'
    BY DEF RouteMatches
  <1>6. RegistriesMatch'
    BY <1>1, <1>5 DEF RouteInv, RegistriesMatch, R!Known, R!TypeOK
  <1>7. \A a \in rAttempts' : AttemptOK(a)'
    BY <1>5 DEF RouteInv, AttemptOK
  <1>8. ASSUME NEW q \in Senders PROVE JobOK(q)'
    <2>1. CASE q = p
      BY <2>1
    <2>2. CASE q # p
      <3>1. job'[q] = job[q] /\ router'[q] = router[q] /\ live'[q] = live[q] /\ JobOK(q)
        BY <1>1, <1>2, <2>2 DEF R!TypeOK, RouteInv
      <3>2. R!MemberOf(q)' = R!MemberOf(q) /\ \A m : R!Known(q, m)' <=> R!Known(q, m)
        BY <3>1 DEF R!MemberOf, R!Known
      <3>3. \A m : R!MemberRoutingEnabled(pools', members', m) <=> R!MemberRoutingEnabled(pools, members, m)
        OBVIOUS
      <3>4. QED
        BY <3>1, <3>2, <3>3 DEF JobOK
    <2>3. QED
      BY <2>1, <2>2
  <1>9. QED
    BY <1>3, <1>4, <1>6, <1>7, <1>8 DEF RouteInv

(* A job given back or not begun. *)
LEMMA NotBusy ==
  ASSUME RouteInv, NEW p \in Senders, NEW pc \in {"down", "starting", "idle"}, R!Goto(p, pc, 0)
  PROVE  JobOK(p)'
  <1>1. job'[p].pc = pc
    BY DEF R!Goto, RouteInv, R!TypeOK
  <1>2. QED
    BY <1>1 DEF JobOK, Busy

(* A job that is given back leaves nothing behind.                          *)
LEMMA JobReleased ==
  ASSUME RouteInv, NEW p \in Senders, R!Release(p)
  PROVE  R!Goto(p, "idle", 0) /\ JobOK(p)' /\ live' \in [Senders -> BOOLEAN] /\ \A q \in Senders \ {p} : live'[q] = live[q]
  <1>1. R!Goto(p, "idle", 0) /\ live' = [live EXCEPT ![p] = FALSE] /\ live \in [Senders -> BOOLEAN]
    BY DEF R!Release, RouteInv, R!TypeOK
  <1>2. JobOK(p)'
    BY <1>1, NotBusy
  <1>3. QED
    BY <1>1, <1>2

(* Places that differ and are fewer than there are members are all taken.    *)
LEMMA PlacesAreAllTaken ==
  ASSUME NEW S, IsFiniteSet(S), NEW f \in [S -> 0 .. (Cardinality(S) - 1)],
         \A x, y \in S : x # y => f[x] # f[y], NEW k \in Nat, k < Cardinality(S)
  PROVE  \E x \in S : f[x] = k
  <1> DEFINE places == (0 .. (Cardinality(S) - 1)) \ {k}
  <1> SUFFICES ASSUME \A x \in S : f[x] # k PROVE FALSE
    OBVIOUS
  <1>1. Cardinality(S) \in Nat
    BY FS_CardinalityType
  <1>2. IsFiniteSet(0 .. (Cardinality(S) - 1)) /\ Cardinality(0 .. (Cardinality(S) - 1)) = Cardinality(S)
    <2>1. 0 \in Int /\ Cardinality(S) - 1 \in Int /\ ~(0 > Cardinality(S) - 1)
      BY <1>1
    <2>2. Cardinality(0 .. (Cardinality(S) - 1)) = Cardinality(S) - 1 - 0 + 1
      BY <2>1, FS_Interval
    <2>3. IsFiniteSet(0 .. (Cardinality(S) - 1))
      BY <2>1, FS_Interval
    <2> QED
      BY <1>1, <2>2, <2>3
  <1>3. k \in 0 .. (Cardinality(S) - 1)
    BY <1>1
  <1>4. IsFiniteSet(places) /\ Cardinality(places) = Cardinality(S) - 1
    <2> DEFINE all == 0 .. (Cardinality(S) - 1)
    <2>1. IsFiniteSet(all) /\ Cardinality(all) = Cardinality(S) /\ k \in all /\ places = all \ {k}
      BY <1>2, <1>3
    <2> HIDE DEF all, places
    <2>2. IsFiniteSet(all \ {k}) /\ Cardinality(all \ {k}) = Cardinality(all) - 1
      BY <2>1, FS_RemoveElement
    <2> QED
      BY <2>1, <2>2
  <1>5. f \in [S -> places]
    OBVIOUS
  <1>6. Cardinality(places) < Cardinality(S)
    BY <1>1, <1>4
  <1> HIDE DEF places
  <1> QED
    BY <1>4, <1>5, <1>6, FS_PigeonHole

(* In a finite set with a strict total order, below[x] being what comes      *)
(* before x, a member's place is the number before it: places grow with the  *)
(* order, and every place from 0 on is taken.                               *)
LEMMA RanksAreTaken ==
  ASSUME NEW S, IsFiniteSet(S), NEW below \in [S -> SUBSET S],
         \A x \in S : x \notin below[x],
         \A x, y, z \in S : x \in below[y] /\ y \in below[z] => x \in below[z],
         \A x, y \in S : x = y \/ x \in below[y] \/ y \in below[x]
  PROVE  /\ \A x, y \in S : x \in below[y] => Cardinality(below[x]) < Cardinality(below[y])
         /\ \A x \in S : Cardinality(below[x]) \in Nat
         /\ \A k \in Nat : k < Cardinality(S) => \E x \in S : Cardinality(below[x]) = k
  <1>1. Cardinality(S) \in Nat
    BY FS_CardinalityType
  <1>2. ASSUME NEW x \in S
        PROVE  /\ IsFiniteSet(below[x]) /\ Cardinality(below[x]) \in Nat
               /\ Cardinality(below[x]) \in 0 .. (Cardinality(S) - 1)
    <2>1. below[x] \in SUBSET S /\ below[x] # S
      OBVIOUS
    <2>2. IsFiniteSet(below[x]) /\ Cardinality(below[x]) <= Cardinality(S) /\ Cardinality(S) # Cardinality(below[x])
      BY <2>1, FS_Subset
    <2>3. Cardinality(below[x]) \in Nat
      BY <2>2, FS_CardinalityType
    <2> QED
      BY <1>1, <2>2, <2>3
  <1>3. ASSUME NEW x \in S, NEW y \in S, x \in below[y]
        PROVE  Cardinality(below[x]) < Cardinality(below[y])
    <2>1. below[x] \in SUBSET below[y] /\ below[x] # below[y]
      BY <1>3
    <2>2. Cardinality(below[x]) <= Cardinality(below[y]) /\ Cardinality(below[y]) # Cardinality(below[x])
      BY <2>1, <1>2, FS_Subset
    <2> QED
      BY <2>2, <1>2
  <1>4. ASSUME NEW k \in Nat, k < Cardinality(S) PROVE \E x \in S : Cardinality(below[x]) = k
    <2> DEFINE f == [x \in S |-> Cardinality(below[x])]
    <2>1. f \in [S -> 0 .. (Cardinality(S) - 1)]
      BY <1>2
    <2>2. ASSUME NEW x \in S, NEW y \in S, x # y PROVE f[x] # f[y]
      <3>1. f[x] = Cardinality(below[x]) /\ f[x] \in Nat /\ f[y] = Cardinality(below[y]) /\ f[y] \in Nat
        BY <1>2
      <3>2. f[x] < f[y] \/ f[y] < f[x]
        BY <2>2, <3>1, <1>3
      <3> HIDE DEF f
      <3> QED
        BY <3>1, <3>2
    <2>3. \E x \in S : f[x] = k
      <3> HIDE DEF f
      <3> QED
        BY <2>1, <2>2, <1>4, PlacesAreAllTaken
    <2> QED
      BY <2>3
  <1> QED
    BY <1>2, <1>3, <1>4

(* In a finite set of numbers every place from 0 on is some member's. *)
LEMMA PlacesAreTaken ==
  ASSUME NEW C \in SUBSET Nat, IsFiniteSet(C), NEW k \in Nat, k < Cardinality(C)
  PROVE  \E m \in C : Cardinality({c \in C : c < m}) = k
  <1> DEFINE below == [m \in C |-> {c \in C : c < m}]
  <1>1. /\ below \in [C -> SUBSET C]
        /\ \A x, y \in C : x \in below[y] <=> x < y
    OBVIOUS
  <1>2. \A m \in C : below[m] = {c \in C : c < m}
    OBVIOUS
  <1> HIDE DEF below
  <1>3. /\ \A x \in C : x \notin below[x]
        /\ \A x, y, z \in C : x \in below[y] /\ y \in below[z] => x \in below[z]
        /\ \A x, y \in C : x = y \/ x \in below[y] \/ y \in below[x]
    BY <1>1
  <1>4. \A n \in Nat : n < Cardinality(C) => \E m \in C : Cardinality(below[m]) = n
    BY <1>1, <1>3, RanksAreTaken
  <1>5. PICK m \in C : Cardinality(below[m]) = k
    BY <1>4
  <1>6. QED
    BY <1>2, <1>5

(* The index is within the list: a member is chosen whenever there is one.  *)
LEMMA SelectsACandidate ==
  ASSUME R!RoutingAssumption, NEW i \in R!MessageIds, NEW C \in SUBSET (1..MaxMembers), C # {}
  PROVE  R!SelectMember(i, C) \in C
  <1>1. \A S : R!Cardinality(S) = Cardinality(S)
    BY DEF R!Cardinality, Cardinality
  <1>2. IsFiniteSet(1..MaxMembers)
    BY FS_Interval DEF R!RoutingAssumption
  <1>3. IsFiniteSet(C)
    BY <1>2, FS_Subset
  <1>4. Cardinality(C) \in Nat \ {0}
    BY <1>3, FS_CardinalityType, FS_EmptySet
  <1>5. Digest[i] % Cardinality(C) \in Nat /\ Digest[i] % Cardinality(C) < Cardinality(C)
    BY <1>4 DEF R!RoutingAssumption
  <1>6. \E m \in C : Cardinality({c \in C : c < m}) = Digest[i] % Cardinality(C)
    BY <1>3, <1>5, PlacesAreTaken
  <1>7. QED
    BY <1>1, <1>6 DEF R!SelectMember

(* Every step of acceptance, delivery and the operator keeps the invariant. *)
LEMMA RouteStep ==
  ASSUME R!RoutingAssumption PROVE RouteInv /\ [R!Next]_R!vars => RouteInv'
  <1> SUFFICES ASSUME RouteInv, [R!Next]_R!vars PROVE RouteInv'
    OBVIOUS
  <1>0. R!TypeOK /\ Len(pools) <= MaxPools /\ Len(members) <= MaxMembers /\ MaxPools \in Nat /\ MaxMembers \in Nat
    BY DEF RouteInv, Pinned, R!RoutingAssumption
  <1>1. CASE UNCHANGED R!vars
    <2>1. R!TypeOK' /\ Pinned'
      BY <1>1 DEF R!vars, RouteInv, R!TypeOK, Pinned
    <2>2. RegistriesMatch' /\ \A a \in rAttempts' : AttemptOK(a)'
      BY <1>1 DEF R!vars, RouteInv, RegistriesMatch, RouteMatches, R!Known, AttemptOK
    <2>3. \A p \in Senders : JobOK(p)'
      BY <1>1 DEF R!vars, RouteInv, JobOK, R!MemberOf, R!Known, R!MemberRoutingEnabled
    <2>4. QED
      BY <2>1, <2>2, <2>3 DEF RouteInv
  <1>2. CASE R!cmdCreateSendingPool
    <2>1. R!Operator /\ pools' = Append(pools, TRUE) /\ UNCHANGED <<members, domain>> /\ Len(pools) < MaxPools
      BY <1>2 DEF R!cmdCreateSendingPool, R!CreateSendingPool
    <2>2. pools' \in Seq(BOOLEAN) /\ Len(pools') <= MaxPools
      BY <1>0, <2>1 DEF R!TypeOK
    <2>3. TablesGrow
      BY <1>0, <2>1, <2>2 DEF TablesGrow, R!TypeOK
    <2>4. QED
      BY <2>1, <2>3, OperatorMoves
  <1>3. ASSUME NEW on \in BOOLEAN, R!cmdSetSendingPoolEnabled(on) PROVE RouteInv'
    <2>1. PICK q \in DOMAIN pools : pools' = [pools EXCEPT ![q] = on]
      BY <1>3 DEF R!cmdSetSendingPoolEnabled, R!SetSendingPoolEnabled
    <2>2. R!Operator /\ UNCHANGED <<members, domain>>
      BY <1>3 DEF R!cmdSetSendingPoolEnabled
    <2>3. pools' \in Seq(BOOLEAN) /\ Len(pools') = Len(pools)
      BY <1>0, <2>1 DEF R!TypeOK
    <2>4. TablesGrow
      BY <1>0, <2>2, <2>3 DEF TablesGrow, R!TypeOK
    <2>5. QED
      BY <2>2, <2>4, OperatorMoves
  <1>4. CASE R!cmdCreateSendingPoolMember
    <2>1. PICK q \in DOMAIN pools, kind \in {"direct", "relay"}, h \in BOOLEAN :
            /\ Len(members) < MaxMembers
            /\ members' = Append(members, [pool |-> q, kind |-> kind, hostname |-> h, enabled |-> TRUE])
      BY <1>4 DEF R!cmdCreateSendingPoolMember, R!CreateSendingPoolMember
    <2>2. R!Operator /\ UNCHANGED <<pools, domain>>
      BY <1>4 DEF R!cmdCreateSendingPoolMember
    <2> DEFINE new == [pool |-> q, kind |-> kind, hostname |-> h, enabled |-> TRUE]
    <2>3. q \in 1..MaxPools
      BY <1>0 DEF R!TypeOK
    <2>4. new \in R!SendingPoolMember
      BY <2>3 DEF R!SendingPoolMember
    <2> HIDE DEF new
    <2>5. members' = Append(members, new) /\ members \in Seq(R!SendingPoolMember)
      BY <1>0, <2>1 DEF new, R!TypeOK
    <2>6. members' \in Seq(R!SendingPoolMember) /\ Len(members') = Len(members) + 1
          /\ \A m \in DOMAIN members : m \in DOMAIN members' /\ members'[m] = members[m]
      BY <2>4, <2>5
    <2>7. TablesGrow
      BY <1>0, <2>1, <2>2, <2>6 DEF TablesGrow, R!TypeOK
    <2>8. QED
      BY <2>2, <2>7, OperatorMoves
  <1>5. ASSUME NEW on \in BOOLEAN, R!cmdSetSendingPoolMemberEnabled(on) PROVE RouteInv'
    <2>1. PICK m \in DOMAIN members : members' = [members EXCEPT ![m].enabled = on]
      BY <1>5 DEF R!cmdSetSendingPoolMemberEnabled, R!SetSendingPoolMemberEnabled
    <2>2. R!Operator /\ UNCHANGED <<pools, domain>>
      BY <1>5 DEF R!cmdSetSendingPoolMemberEnabled
    <2> DEFINE new == [members[m] EXCEPT !.enabled = on]
    <2>3. members \in Seq(R!SendingPoolMember) /\ members[m] \in R!SendingPoolMember
      BY <1>0 DEF R!TypeOK
    <2>4. new \in R!SendingPoolMember
      BY <2>3 DEF R!SendingPoolMember
    <2>5. new.kind = members[m].kind
      BY <2>3 DEF R!SendingPoolMember
    <2>6. members' = [members EXCEPT ![m] = new]
      BY <2>1
    <2> HIDE DEF new
    <2>7. members' \in Seq(R!SendingPoolMember) /\ Len(members') = Len(members) /\ DOMAIN members' = DOMAIN members
          /\ \A x \in DOMAIN members : members'[x] = IF x = m THEN new ELSE members[x]
      BY <2>3, <2>4, <2>6
    <2>8. \A x \in DOMAIN members : members'[x].kind = members[x].kind
      BY <2>5, <2>7
    <2>9. /\ pools' \in Seq(BOOLEAN) /\ domain' \in 0..MaxPools /\ Len(pools') <= MaxPools
      BY <1>0, <2>2 DEF R!TypeOK
    <2>10. Len(members') <= MaxMembers /\ Len(members) <= Len(members')
      BY <1>0, <2>3, <2>7
    <2>11. TablesGrow
      BY <2>7, <2>8, <2>9, <2>10 DEF TablesGrow
    <2>12. QED
      BY <2>2, <2>11, OperatorMoves
  <1>6. CASE R!cmdAssignDomainPool
    <2>1. R!Operator /\ UNCHANGED <<pools, members>> /\ domain' \in 0..MaxPools
      BY <1>6 DEF R!cmdAssignDomainPool, R!AssignDomainPool
    <2>2. TablesGrow
      BY <1>0, <2>1 DEF TablesGrow, R!TypeOK
    <2>3. QED
      BY <2>1, <2>2, OperatorMoves
  <1>7. ASSUME NEW msg \in R!MessageIds, R!ReadPool(msg) PROVE RouteInv'
    <2>1. /\ UNCHANGED <<pools, members, domain, sendingMember, router, job, rSent, rAttempts, live>>
          /\ sendingMember[msg] = -1
          /\ accepting' = [msg |-> msg, pool |-> IF domain # 0 /\ pools[domain] THEN domain ELSE 0]
      BY <1>7 DEF R!ReadPool, R!tables, R!work
    <2>2. accepting' \in [msg: R!MessageIds \union {0}, pool: 0..MaxPools] /\ accepting'.msg = msg
      BY <1>0, <2>1 DEF R!TypeOK
    <2>3. R!TypeOK' /\ Pinned'
      BY <1>0, <2>1, <2>2 DEF R!TypeOK, RouteInv, Pinned
    <2>4. RegistriesMatch' /\ \A a \in rAttempts' : AttemptOK(a)'
      BY <2>1 DEF RouteInv, RegistriesMatch, RouteMatches, R!Known, AttemptOK
    <2>5. \A p \in Senders : JobOK(p)'
      BY <2>1 DEF RouteInv, JobOK, R!MemberOf, R!Known, R!MemberRoutingEnabled
    <2>6. QED
      BY <2>3, <2>4, <2>5 DEF RouteInv
  <1>8. CASE R!InsertMessage
    <2> DEFINE i == accepting.msg
               m == R!selectRoutingMember
    <2>1. /\ UNCHANGED <<pools, members, domain, router, job, rSent, rAttempts, live>>
          /\ i \in R!MessageIds /\ sendingMember[i] = -1
          /\ sendingMember' = [sendingMember EXCEPT ![i] = m] /\ accepting' = [msg |-> 0, pool |-> 0]
      BY <1>0, <1>8 DEF R!InsertMessage, R!tables, R!work, R!TypeOK, RouteInv, Pinned
    <2>2. m \in 0..Len(members)
      <3> DEFINE C == R!ListEnabled(accepting.pool)
      <3>1. C \in SUBSET (1..MaxMembers) /\ C \subseteq 1..Len(members)
        BY <1>0 DEF R!ListEnabled, R!TypeOK
      <3>2. CASE accepting.pool = 0 \/ C = {}
        <4>1. accepting.pool = 0 \/ m = R!SelectMember(i, {})
          BY <3>2 DEF R!selectRoutingMember
        <4>2. R!SelectMember(i, {}) = 0
          BY SelectsACandidate DEF R!SelectMember
        <4>3. Len(members) \in Nat
          BY <1>0 DEF R!TypeOK
        <4>4. QED
          BY <4>1, <4>2, <4>3 DEF R!selectRoutingMember
      <3>3. CASE accepting.pool # 0 /\ C # {}
        <4>1. m = R!SelectMember(i, C)
          BY <3>3 DEF R!selectRoutingMember
        <4> HIDE DEF C, m, i
        <4>2. R!SelectMember(i, C) \in C
          BY <2>1, <3>1, <3>3, SelectsACandidate
        <4>3. QED
          <5>1. Len(members) \in Nat
            BY <1>0 DEF R!TypeOK
          <5>2. m \in 1..Len(members)
            BY <3>1, <4>1, <4>2
          <5>3. QED
            BY <5>1, <5>2
      <3>4. QED
        BY <3>2, <3>3
    <2> HIDE DEF i, m
    <2>3. \A x \in R!MessageIds \ {i} : sendingMember'[x] = sendingMember[x]
      BY <1>0, <2>1 DEF R!TypeOK
    <2>4. sendingMember' \in [R!MessageIds -> {-1} \union (0..MaxMembers)] /\ sendingMember'[i] = m
      <3>1. m \in 0..MaxMembers
        BY <1>0, <2>2 DEF R!TypeOK
      <3>2. QED
        BY <1>0, <2>1, <3>1 DEF R!TypeOK
    <2>5. accepting' \in [msg: R!MessageIds \union {0}, pool: 0..MaxPools] /\ accepting'.msg = 0
      BY <1>0, <2>1
    <2>6. R!TypeOK'
      BY <1>0, <2>1, <2>4, <2>5 DEF R!TypeOK
    <2>7. Pinned'
      BY <1>0, <2>1, <2>2, <2>3, <2>4, <2>5 DEF RouteInv, Pinned
    <2>8. RegistriesMatch'
      BY <2>1 DEF RouteInv, RegistriesMatch, RouteMatches, R!Known
    <2>9. \A a \in rAttempts' : AttemptOK(a)'
      <3> SUFFICES ASSUME NEW a \in rAttempts PROVE AttemptOK(a)'
        BY <2>1
      <3>1. AttemptOK(a) /\ a.msg \in R!MessageIds /\ a.member \in 0..MaxMembers
        BY <1>0 DEF RouteInv, R!TypeOK
      <3>2. a.msg # i
        BY <2>1, <3>1 DEF AttemptOK
      <3>3. QED
        BY <2>1, <2>3, <3>1, <3>2 DEF AttemptOK, RouteMatches
    <2>10. ASSUME NEW p \in Senders PROVE JobOK(p)'
      <3>1. JobOK(p) /\ job[p].msg \in R!MessageIds \union {0}
        BY <1>0 DEF RouteInv, R!TypeOK
      <3>2. job[p].pc \in Busy => R!MemberOf(p)' = R!MemberOf(p)
        BY <2>1, <2>3, <3>1 DEF JobOK, R!MemberOf
      <3>3. \A x : R!Known(p, x)' <=> R!Known(p, x)
        BY <2>1 DEF R!Known
      <3>4. QED
        BY <2>1, <3>1, <3>2, <3>3 DEF JobOK, R!MemberRoutingEnabled
    <2>11. QED
      BY <2>6, <2>7, <2>8, <2>9, <2>10 DEF RouteInv
  <1>9. ASSUME NEW p \in Senders, R!Start(p) PROVE RouteInv'
    <2>1. PICK relay \in BOOLEAN : router' = [router EXCEPT ![p] = [relay |-> relay, seen |-> R!ListSendingPools, table |-> R!NoRoutes]]
      BY <1>9 DEF R!Start
    <2>2. R!Goto(p, "starting", 0) /\ UNCHANGED <<pools, members, domain, accepting, sendingMember, rSent, rAttempts, live>>
      BY <1>9 DEF R!Start, R!tables
    <2> DEFINE rt == [relay |-> relay, seen |-> R!ListSendingPools, table |-> R!NoRoutes]
    <2>3. R!ListSendingPools \in SUBSET (1..MaxPools)
      BY <1>0 DEF R!ListSendingPools, R!TypeOK
    <2>4. R!NoRoutes \in [1..MaxMembers -> R!MemberRoute] /\ \A m \in 1..MaxMembers : R!NoRoutes[m] = R!NoRoute
      BY <1>0 DEF R!NoRoutes, R!NoRoute, R!MemberRoute
    <2>5. rt \in R!Router /\ rt.table = R!NoRoutes
      BY <2>3, <2>4 DEF R!Router
    <2>6. router' = [router EXCEPT ![p] = rt]
      BY <2>1
    <2> HIDE DEF rt
    <2>7. JobOK(p)'
      BY <2>2, NotBusy
    <2>8. live' \in [Senders -> BOOLEAN] /\ rSent' \in SUBSET R!MessageIds
          /\ rAttempts' \subseteq [msg: R!MessageIds, member: 0..MaxMembers, transport: {"direct", "relay"}, identity: 0..MaxMembers]
      BY <1>0, <2>2 DEF R!TypeOK
    <2>9. QED
      BY <2>2, <2>4, <2>5, <2>6, <2>7, <2>8, ProcessMoves
  <1>10. ASSUME NEW p \in Senders, R!buildRouter(p) PROVE RouteInv'
    <2> DEFINE listed == UNION {R!ListSendingPoolMembers(q) : q \in router[p].seen}
               t == [m \in 1..MaxMembers |-> IF m \in listed THEN R!Target(m, router[p].relay) ELSE R!NoRoute]
               rt == [router[p] EXCEPT !.table = t]
    <2>1. R!Goto(p, "idle", 0) /\ UNCHANGED <<pools, members, domain, accepting, sendingMember, rSent, rAttempts, live>>
          /\ router' = [router EXCEPT ![p] = rt] /\ router[p] \in R!Router
      BY <1>0, <1>10 DEF R!buildRouter, R!tables, R!TypeOK
    <2>2. listed \subseteq DOMAIN members
      BY DEF R!ListSendingPoolMembers
    <2> HIDE DEF listed
    <2>3. ASSUME NEW m \in DOMAIN members, NEW relay \in BOOLEAN, R!Target(m, relay) # R!NoRoute
          PROVE  RouteMatches(m, R!Target(m, relay)) /\ R!Target(m, relay) \in R!MemberRoute
      <3>1. members[m].kind \in {"direct", "relay"} /\ m \in 0..MaxMembers
        <4>1. members[m] \in R!SendingPoolMember /\ m \in 1..Len(members) /\ Len(members) \in Nat
          BY <1>0 DEF R!TypeOK
        <4>2. QED
          BY <1>0, <4>1 DEF R!SendingPoolMember
      <3>2. CASE members[m].kind = "relay"
        <4>1. R!Target(m, relay) = [kind |-> "relay", identity |-> 0]
          BY <2>3, <3>2 DEF R!Target
        <4>2. QED
          BY <1>0, <3>2, <4>1 DEF RouteMatches, R!MemberRoute
      <3>3. CASE members[m].kind = "direct"
        <4>1. R!Target(m, relay) = [kind |-> "direct", identity |-> m]
          BY <2>3, <3>3 DEF R!Target
        <4>2. QED
          BY <3>1, <3>3, <4>1 DEF RouteMatches, R!MemberRoute
      <3>4. QED
        BY <3>1, <3>2, <3>3
    <2>4. router[p].relay \in BOOLEAN /\ R!NoRoute \in R!MemberRoute
      BY <1>0, <2>1 DEF R!Router, R!NoRoute, R!MemberRoute
    <2>5. t \in [1..MaxMembers -> R!MemberRoute] /\ \A m \in 1..MaxMembers : t[m] # R!NoRoute => RouteMatches(m, t[m])
      BY <2>2, <2>3, <2>4
    <2> HIDE DEF t
    <2>6. rt \in R!Router /\ rt.table = t
      BY <2>1, <2>5 DEF R!Router
    <2> HIDE DEF rt
    <2>7. JobOK(p)'
      BY <2>1, NotBusy
    <2>8. live' \in [Senders -> BOOLEAN] /\ rSent' \in SUBSET R!MessageIds
          /\ rAttempts' \subseteq [msg: R!MessageIds, member: 0..MaxMembers, transport: {"direct", "relay"}, identity: 0..MaxMembers]
      BY <1>0, <2>1 DEF R!TypeOK
    <2>9. QED
      BY <2>1, <2>5, <2>6, <2>7, <2>8, ProcessMoves
  <1>11. ASSUME NEW p \in Senders, R!Stop(p) PROVE RouteInv'
    <2>1. R!Goto(p, "down", 0) /\ UNCHANGED <<pools, members, domain, accepting, sendingMember, rSent, rAttempts>>
          /\ router' = [router EXCEPT ![p] = R!Down] /\ live' = [live EXCEPT ![p] = FALSE] /\ live \in [Senders -> BOOLEAN]
      BY <1>0, <1>11 DEF R!Stop, R!tables, R!TypeOK
    <2>2. R!Down \in R!Router /\ \A m \in 1..MaxMembers : R!Down.table[m] = R!NoRoute
      BY <1>0 DEF R!Down, R!Router, R!NoRoutes, R!NoRoute, R!MemberRoute
    <2>3. JobOK(p)'
      BY <2>1, NotBusy
    <2>4. live' \in [Senders -> BOOLEAN] /\ \A q \in Senders \ {p} : live'[q] = live[q]
      BY <2>1
    <2>5. rSent' \in SUBSET R!MessageIds
          /\ rAttempts' \subseteq [msg: R!MessageIds, member: 0..MaxMembers, transport: {"direct", "relay"}, identity: 0..MaxMembers]
      BY <1>0, <2>1 DEF R!TypeOK
    <2>6. QED
      BY <2>1, <2>2, <2>3, <2>4, <2>5, ProcessMoves
  <1>12. ASSUME NEW p \in Senders, R!Claim(p) PROVE RouteInv'
    <2>1. PICK msg \in R!MessageIds \ rSent :
            /\ sendingMember[msg] # -1 /\ R!Goto(p, IF sendingMember[msg] = 0 THEN "smtp" ELSE "check", msg)
            /\ live' = [live EXCEPT ![p] = sendingMember[msg] # 0 /\ members[sendingMember[msg]].enabled
                                              /\ pools[members[sendingMember[msg]].pool]]
      BY <1>12 DEF R!Claim
    <2> DEFINE m == sendingMember[msg]
               pc == IF m = 0 THEN "smtp" ELSE "check"
               on == m # 0 /\ members[m].enabled /\ pools[members[m].pool]
    <2>2. UNCHANGED <<pools, members, domain, accepting, sendingMember, router, rSent, rAttempts>>
      BY <1>12 DEF R!Claim, R!tables
    <2>3. R!Goto(p, pc, msg) /\ live' = [live EXCEPT ![p] = on] /\ pc \in {"check", "smtp"} /\ on \in BOOLEAN
      BY <2>1
    <2>4. router' = [router EXCEPT ![p] = router[p]] /\ router[p] \in R!Router /\ live \in [Senders -> BOOLEAN]
          /\ rSent' \in SUBSET R!MessageIds
          /\ rAttempts' \subseteq [msg: R!MessageIds, member: 0..MaxMembers, transport: {"direct", "relay"}, identity: 0..MaxMembers]
      BY <1>0, <2>2 DEF R!TypeOK
    <2>5. \A x \in 1..MaxMembers : router[p].table[x] # R!NoRoute => RouteMatches(x, router[p].table[x])
      BY DEF RouteInv, RegistriesMatch, R!Known
    <2>6. job'[p] = [pc |-> pc, msg |-> msg]
      BY <1>0, <2>3 DEF R!Goto, R!TypeOK
    <2>7. R!MemberOf(p)' = m /\ m # -1 /\ msg # 0
      BY <2>1, <2>2, <2>6 DEF R!MemberOf, R!RoutingAssumption
    <2>8. m # 0 /\ R!MemberRoutingEnabled(pools, members, m) => on
      BY DEF R!MemberRoutingEnabled
    <2>9. (m = 0 => pc = "smtp") /\ (m # 0 => pc = "check")
      OBVIOUS
    <2> HIDE DEF m, pc, on
    <2>10. live'[p] <=> on
      BY <2>3, <2>4
    <2>11. live' \in [Senders -> BOOLEAN] /\ \A q \in Senders \ {p} : live'[q] = live[q]
      BY <2>3, <2>4
    <2>12. JobOK(p)'
      BY <2>2, <2>6, <2>7, <2>8, <2>9, <2>10 DEF JobOK
    <2>13. QED
      BY <2>2, <2>3, <2>4, <2>5, <2>11, <2>12, ProcessMoves, ZenonT(60)
  <1>13. ASSUME NEW p \in Senders, R!MemberKnownLocally(p) PROVE RouteInv'
    <2>1. UNCHANGED <<pools, members, domain, accepting, sendingMember, router, rSent, rAttempts>> /\ job[p].pc = "check"
      BY <1>13 DEF R!MemberKnownLocally, R!tables, R!At
    <2>2. router' = [router EXCEPT ![p] = router[p]] /\ router[p] \in R!Router /\ live \in [Senders -> BOOLEAN]
          /\ rSent' \in SUBSET R!MessageIds /\ job[p].msg \in R!MessageIds \union {0}
          /\ rAttempts' \subseteq [msg: R!MessageIds, member: 0..MaxMembers, transport: {"direct", "relay"}, identity: 0..MaxMembers]
      BY <1>0, <2>1 DEF R!TypeOK
    <2>3. \A x \in 1..MaxMembers : router[p].table[x] # R!NoRoute => RouteMatches(x, router[p].table[x])
      BY DEF RouteInv, RegistriesMatch, R!Known
    <2>4. CASE R!Known(p, R!MemberOf(p)) /\ R!Goto(p, "gate", job[p].msg) /\ UNCHANGED live
      <3>1. job'[p] = [pc |-> "gate", msg |-> job[p].msg]
        BY <1>0, <2>4 DEF R!Goto, R!TypeOK
      <3>2. R!MemberOf(p)' = R!MemberOf(p) /\ \A x : R!Known(p, x)' <=> R!Known(p, x)
        BY <2>1, <3>1 DEF R!MemberOf, R!Known
      <3>3. JobOK(p) /\ live'[p] = live[p]
        BY <2>4 DEF RouteInv
      <3>4. JobOK(p)'
        BY <2>1, <2>4, <3>1, <3>2, <3>3 DEF JobOK, Busy
      <3>5. QED
        BY <2>1, <2>2, <2>3, <2>4, <3>4, ProcessMoves
    <2>5. CASE R!Release(p)
      <3>1. R!Goto(p, "idle", 0) /\ JobOK(p)' /\ live' \in [Senders -> BOOLEAN] /\ \A q \in Senders \ {p} : live'[q] = live[q]
        BY <2>5, JobReleased
      <3>2. QED
        BY <2>1, <2>2, <2>3, <3>1, ProcessMoves
    <2>6. QED
      BY <1>13, <2>4, <2>5 DEF R!MemberKnownLocally
  <1>14. ASSUME NEW p \in Senders, R!holdIfMemberDisabled(p) PROVE RouteInv'
    <2>1. UNCHANGED <<pools, members, domain, accepting, sendingMember, router, rSent, rAttempts>> /\ job[p].pc = "gate"
      BY <1>14 DEF R!holdIfMemberDisabled, R!tables, R!At
    <2>2. router' = [router EXCEPT ![p] = router[p]] /\ router[p] \in R!Router /\ live \in [Senders -> BOOLEAN]
          /\ rSent' \in SUBSET R!MessageIds /\ job[p].msg \in R!MessageIds \union {0}
          /\ rAttempts' \subseteq [msg: R!MessageIds, member: 0..MaxMembers, transport: {"direct", "relay"}, identity: 0..MaxMembers]
      BY <1>0, <2>1 DEF R!TypeOK
    <2>3. \A x \in 1..MaxMembers : router[p].table[x] # R!NoRoute => RouteMatches(x, router[p].table[x])
      BY DEF RouteInv, RegistriesMatch, R!Known
    <2>4. CASE R!MemberRoutingEnabled(pools, members, R!MemberOf(p)) /\ R!Goto(p, "smtp", job[p].msg) /\ UNCHANGED live
      <3>1. job'[p] = [pc |-> "smtp", msg |-> job[p].msg]
        BY <1>0, <2>4 DEF R!Goto, R!TypeOK
      <3>2. R!MemberOf(p)' = R!MemberOf(p) /\ \A x : R!Known(p, x)' <=> R!Known(p, x)
        BY <2>1, <3>1 DEF R!MemberOf, R!Known
      <3>3. JobOK(p) /\ live'[p] = live[p]
        BY <2>4 DEF RouteInv
      <3>4. JobOK(p)'
        BY <2>1, <2>4, <3>1, <3>2, <3>3 DEF JobOK, Busy
      <3>5. QED
        BY <2>1, <2>2, <2>3, <2>4, <3>4, ProcessMoves
    <2>5. CASE R!Release(p)
      <3>1. R!Goto(p, "idle", 0) /\ JobOK(p)' /\ live' \in [Senders -> BOOLEAN] /\ \A q \in Senders \ {p} : live'[q] = live[q]
        BY <2>5, JobReleased
      <3>2. QED
        BY <2>1, <2>2, <2>3, <3>1, ProcessMoves
    <2>6. QED
      BY <1>14, <2>4, <2>5 DEF R!holdIfMemberDisabled
  <1>15. ASSUME NEW p \in Senders, R!Attempt(p) PROVE RouteInv'
    <2> DEFINE m == R!MemberOf(p)
               a == R!Deliver(p, m)
    <2>1. UNCHANGED <<pools, members, domain, accepting, sendingMember, router>> /\ job[p].pc = "smtp"
          /\ rAttempts' = rAttempts \union {a} /\ rSent' \in {rSent, rSent \union {job[p].msg}} /\ R!Release(p)
      BY <1>15 DEF R!Attempt, R!tables, R!At
    <2>2. router' = [router EXCEPT ![p] = router[p]] /\ router[p] \in R!Router /\ job[p].msg \in R!MessageIds
      BY <1>0, <2>1 DEF R!TypeOK, RouteInv, JobOK, Busy
    <2>3. \A x \in 1..MaxMembers : router[p].table[x] # R!NoRoute => RouteMatches(x, router[p].table[x])
      BY DEF RouteInv, RegistriesMatch, R!Known
    <2>4. R!Goto(p, "idle", 0) /\ JobOK(p)' /\ live' \in [Senders -> BOOLEAN] /\ \A q \in Senders \ {p} : live'[q] = live[q]
      BY <2>1, JobReleased
    <2>5. m = sendingMember[job[p].msg] /\ m \in 0..MaxMembers /\ (m # 0 => R!Known(p, m))
      BY <1>0, <2>1, <2>2 DEF RouteInv, JobOK, Busy, R!MemberOf, R!TypeOK, R!RoutingAssumption
    <2>6. AttemptOK(a) /\ a \in [msg: R!MessageIds, member: 0..MaxMembers, transport: {"direct", "relay"}, identity: 0..MaxMembers]
      <3>1. CASE m = 0
        <4>1. a.msg = job[p].msg /\ a.member = 0
          BY <3>1 DEF R!Deliver
        <4>2. a \in [msg: R!MessageIds, member: 0..MaxMembers, transport: {"direct", "relay"}, identity: 0..MaxMembers]
          BY <1>0, <2>2, <3>1 DEF R!Deliver
        <4>3. QED
          BY <2>5, <3>1, <4>1, <4>2 DEF AttemptOK
      <3>2. CASE m # 0
        <4> DEFINE rt == router[p].table[m]
        <4>1. a = [msg |-> job[p].msg, member |-> m, transport |-> rt.kind, identity |-> rt.identity]
          BY <3>2 DEF R!Deliver
        <4>2. m \in 1..MaxMembers /\ RouteMatches(m, rt) /\ rt \in R!MemberRoute
          BY <1>0, <2>2, <2>3, <2>5, <3>2 DEF R!Known, R!Router
        <4>3. rt.kind \in {"direct", "relay"} /\ rt.identity \in 0..MaxMembers
          <5>1. members[m] \in R!SendingPoolMember
            BY <1>0, <4>2 DEF RouteMatches, R!TypeOK
          <5>2. members[m].kind \in {"direct", "relay"}
            BY <5>1 DEF R!SendingPoolMember
          <5>3. QED
            BY <4>2, <5>2 DEF RouteMatches, R!MemberRoute
        <4> HIDE DEF rt, m
        <4>4. QED
          BY <2>2, <2>5, <4>1, <4>2, <4>3 DEF AttemptOK, RouteMatches
      <3>3. QED
        BY <3>1, <3>2
    <2> HIDE DEF a, m
    <2>7. rSent' \in SUBSET R!MessageIds
          /\ rAttempts' \subseteq [msg: R!MessageIds, member: 0..MaxMembers, transport: {"direct", "relay"}, identity: 0..MaxMembers]
      BY <1>0, <2>1, <2>2, <2>6 DEF R!TypeOK
    <2>8. QED
      BY <2>1, <2>2, <2>3, <2>4, <2>6, <2>7, ProcessMoves
  <1>16. QED
    BY <1>1, <1>2, <1>3, <1>4, <1>5, <1>6, <1>7, <1>8, <1>9, <1>10, <1>11, <1>12, <1>13, <1>14, <1>15 DEF R!Next

(* The routes by themselves are kept.                                       *)
LEMMA RouteAlone ==
  ASSUME R!RoutingAssumption PROVE R!Spec => [](R!TypeOK /\ R!RouteIsKept)
  <1>1. RouteInv => R!TypeOK /\ R!RouteIsKept
    BY DEF RouteInv, AttemptOK, RouteMatches, R!RouteIsKept
  <1>2. QED
    BY RouteInit, RouteStep, <1>1, PTL DEF R!Spec

(* The kill switch by itself holds.                                         *)
LEMMA SwitchAlone ==
  ASSUME R!RoutingAssumption PROVE R!Spec => R!KillSwitchHolds
  <1>1. RouteInv /\ [R!Next]_R!vars =>
          [\A p \in Senders : job[p].pc = "smtp" /\ job'[p].pc = "idle" /\ R!MemberOf(p) # 0 => live[p]]_R!vars
    BY DEF RouteInv, JobOK, Busy
  <1>2. QED
    BY RouteInit, RouteStep, <1>1, PTL DEF R!Spec, R!KillSwitchHolds

-----------------------------------------------------------------------------
(* Template edits and broadcasts under a key.                               *)

(* A request past its checks carries a content that was validated, and one   *)
(* that claims or waits for the key has a payload.                          *)
RequestOK(r) ==
  /\ r.fp \in {"none"} \cup Fingerprints
  /\ r.pc \in {"update", "claim", "create", "poll"} => r.content \in B!Template /\ B!Validate(r.content)
  /\ r.pc \in {"claim", "poll"} => r.fp # "none"
RequestRecord == [pc: {"idle", "update", "claim", "create", "poll"}, content: B!Template \cup {B!NoTemplate},
                  fp: {"none"} \cup Fingerprints]

KeyRow == [fp: {"none"} \cup Fingerprints, status: {"none", "in_progress", "completed"}, res: Nat, stale: BOOLEAN]

Keyed == {i \in DOMAIN broadcasts : broadcasts[i].key # "none"}

(* The broadcasts made under the key are the one the completed key names.   *)
KeyNamesIt ==
  /\ key.status = "completed" => Keyed = {key.res}
  /\ key.status # "completed" => Keyed = {} /\ answers = {}
  /\ \A a \in answers : a[2] = key.res

RequestsInv ==
  /\ tmpl \in B!Template \cup {B!NoTemplate} /\ broadcasts \in Seq(B!Broadcast)
  /\ key \in KeyRow /\ tMade \in 0..MaxBroadcastRequests
  /\ tReq \in [Procs -> RequestRecord] /\ (\A p \in Procs : RequestOK(tReq[p]))
  /\ B!AlwaysABody /\ KeyNamesIt

(* The instance counts the way FiniteSets does.                             *)
LEMMA KeyedCount == \A X : B!Cardinality(X) = Cardinality(X)
  BY DEF B!Cardinality, Cardinality

(* The resting request is a request and nothing is expected of it.          *)
LEMMA IdleRequest == B!Idle \in RequestRecord /\ RequestOK(B!Idle)
  BY DEF B!Idle, RequestRecord, RequestOK

(* The invariant holds before any request.                                  *)
LEMMA RequestsInit == ASSUME B!BroadcastRequestsAssumption PROVE B!Init => RequestsInv
  <1> SUFFICES ASSUME B!Init PROVE RequestsInv
    OBVIOUS
  <1>1. tmpl \in B!Template /\ B!Validate(tmpl)
    BY DEF B!Init, B!Template, B!Body, B!Validate
  <1>2. key \in KeyRow /\ key.status = "none"
    BY DEF B!Init, B!NoKey, KeyRow
  <1>3. broadcasts \in Seq(B!Broadcast) /\ DOMAIN broadcasts = {} /\ answers = {}
    BY DEF B!Init
  <1>4. tMade \in 0..MaxBroadcastRequests
    BY DEF B!Init, B!BroadcastRequestsAssumption
  <1>5. tReq \in [Procs -> RequestRecord] /\ \A p \in Procs : RequestOK(tReq[p])
    BY IdleRequest DEF B!Init
  <1>6. KeyNamesIt /\ B!AlwaysABody
    BY <1>1, <1>2, <1>3 DEF KeyNamesIt, Keyed, B!AlwaysABody
  <1>7. QED
    BY <1>1, <1>2, <1>3, <1>4, <1>5, <1>6 DEF RequestsInv

(* What a merge over the row gives. *)
LEMMA MergeIsWhole ==
  ASSUME NEW t \in B!Template, NEW u \in B!Patches
  PROVE  B!Merged(t, u) \in B!Template
  <1>1. PICK a, b \in B!Body \cup {"none"} : u = [text |-> a, html |-> b]
    BY DEF B!Patches
  <1>2. B!Merged(t, u) = [text |-> IF a = "none" THEN t.text ELSE a, html |-> IF b = "none" THEN t.html ELSE b]
    BY <1>1 DEF B!Merged
  <1>3. t.text \in B!Body /\ t.html \in B!Body
    BY DEF B!Template
  <1>4. QED
    BY <1>2, <1>3 DEF B!Template

(* A PATCH that gives every field replaces the template.                    *)
LEMMA WholeReplaces ==
  ASSUME NEW t \in B!Template, NEW u \in B!Template
  PROVE  B!Merged(t, u) = u
  <1>1. u.text # "none" /\ u.html # "none" /\ u = [text |-> u.text, html |-> u.html]
    BY DEF B!Template, B!Body
  <1>2. B!Merged(t, u) = [f \in {"text", "html"} |-> u[f]]
    BY <1>1 DEF B!Merged
  <1>3. QED
    BY <1>1, <1>2

(* A stored template is not the missing one.                                *)
LEMMA NotARow == ASSUME NEW t \in B!Template PROVE t # B!NoTemplate
  BY DEF B!Template, B!Body, B!NoTemplate

(* A request p moves on and the rest is kept. *)
RequestMove(p, r) == tReq' = [tReq EXCEPT ![p] = r]

(* A request that moves to a place it can justify disturbs nobody.          *)
LEMMA RequestMoves ==
  ASSUME RequestsInv, NEW p \in Procs, NEW r \in RequestRecord, RequestOK(r), RequestMove(p, r)
  PROVE  (tReq \in [Procs -> RequestRecord])' /\ (\A q \in Procs : RequestOK(tReq[q]))'
  BY DEF RequestsInv, RequestMove

(* A step that changes no table keeps the invariant.                        *)
LEMMA OnlyRequestMoves ==
  ASSUME RequestsInv, NEW p \in Procs, NEW r \in RequestRecord, RequestOK(r), RequestMove(p, r) \/ UNCHANGED tReq,
         tMade' \in 0..MaxBroadcastRequests, UNCHANGED <<tmpl, key, broadcasts, answers>>
  PROVE  RequestsInv'
  <1>1. (tReq \in [Procs -> RequestRecord])' /\ (\A q \in Procs : RequestOK(tReq[q]))'
    BY RequestMoves DEF RequestsInv
  <1>2. (KeyNamesIt /\ B!AlwaysABody)'
    BY DEF RequestsInv, KeyNamesIt, Keyed, B!AlwaysABody
  <1>3. QED
    BY <1>1, <1>2 DEF RequestsInv

(* Every step of the template and broadcast handlers keeps the invariant.   *)
LEMMA RequestsStep ==
  ASSUME B!BroadcastRequestsAssumption PROVE RequestsInv /\ [B!Next]_B!vars => RequestsInv'
  <1> SUFFICES ASSUME RequestsInv, [B!Next]_B!vars PROVE RequestsInv'
    OBVIOUS
  <1>1. CASE UNCHANGED B!vars
    BY <1>1 DEF B!vars, RequestsInv, KeyNamesIt, Keyed, B!AlwaysABody
  <1>2. CASE B!GoesStale
    <2>1. key' \in KeyRow /\ key'.status = key.status /\ key'.res = key.res
      BY <1>2 DEF B!GoesStale, RequestsInv, KeyRow
    <2>2. (KeyNamesIt /\ B!AlwaysABody)'
      BY <1>2, <2>1 DEF B!GoesStale, RequestsInv, KeyNamesIt, Keyed, B!AlwaysABody
    <2>3. QED
      BY <1>2, <2>1, <2>2 DEF B!GoesStale, RequestsInv
  <1>3. ASSUME NEW p \in Procs, B!Begin(p) PROVE tMade' \in 0..MaxBroadcastRequests
    BY <1>3 DEF B!Begin, RequestsInv, B!BroadcastRequestsAssumption
  <1>4. ASSUME NEW p \in Procs PROVE tReq[p] \in RequestRecord /\ RequestOK(tReq[p])
    BY DEF RequestsInv
  <1>5. ASSUME NEW p \in Procs, B!handleCreateTemplate(p) \/ B!handleDeleteTemplate(p) \/ B!UpdateTemplate(p)
        PROVE RequestsInv'
    <2>1. (tmpl' \in B!Template /\ B!Validate(tmpl)') \/ tmpl' = B!NoTemplate
      <3>1. CASE B!handleCreateTemplate(p)
        BY <3>1 DEF B!handleCreateTemplate, B!CreateTemplate, B!Validate
      <3>2. CASE B!handleDeleteTemplate(p)
        BY <3>2 DEF B!handleDeleteTemplate, B!DeleteTemplate
      <3>3. CASE B!UpdateTemplate(p)
        <4>1. tReq[p].content \in B!Template /\ B!Validate(tReq[p].content)
          BY <1>4, <3>3 DEF B!UpdateTemplate, B!At, RequestOK
        <4>2. tmpl' = tmpl \/ (tmpl \in B!Template /\ tmpl' = B!Merged(tmpl, tReq[p].content))
          BY <3>3 DEF B!UpdateTemplate, RequestsInv
        <4>3. tmpl' = tmpl \/ tmpl' = tReq[p].content
          BY <4>1, <4>2, WholeReplaces
        <4>4. QED
          BY <4>1, <4>3 DEF RequestsInv, B!AlwaysABody, B!Validate
      <3>4. QED
        BY <1>5, <3>1, <3>2, <3>3
    <2>2. /\ UNCHANGED <<key, broadcasts, answers>> /\ tMade' \in 0..MaxBroadcastRequests
          /\ UNCHANGED tReq \/ RequestMove(p, B!Idle)
      BY <1>3, <1>5 DEF B!handleCreateTemplate, B!handleDeleteTemplate, B!UpdateTemplate, B!Done, RequestMove, RequestsInv
    <2>3. (tReq \in [Procs -> RequestRecord])' /\ (\A q \in Procs : RequestOK(tReq[q]))'
      BY <2>2, IdleRequest, RequestMoves DEF RequestsInv
    <2>4. (KeyNamesIt /\ B!AlwaysABody)'
      BY <2>1, <2>2, NotARow DEF RequestsInv, KeyNamesIt, Keyed, B!AlwaysABody, B!Validate
    <2>5. QED
      BY <2>1, <2>2, <2>3, <2>4 DEF RequestsInv
  <1>6. ASSUME NEW p \in Procs, B!handleUpdateTemplate(p) PROVE RequestsInv'
    <2>1. tmpl \in B!Template /\ B!Begin(p) /\ UNCHANGED <<tmpl, key, broadcasts, answers>>
      BY <1>6 DEF B!handleUpdateTemplate, B!GetTemplate, RequestsInv
    <2>2. PICK u \in B!Patches : IF B!Validate(B!Merged(tmpl, u))
                                 THEN B!Goto(p, "update", B!Merged(tmpl, u), "none") ELSE UNCHANGED tReq
      BY <1>6 DEF B!handleUpdateTemplate, B!GetTemplate
    <2> DEFINE t == B!Merged(tmpl, u)
               r == [pc |-> "update", content |-> t, fp |-> "none"]
    <2>3. t \in B!Template
      BY <2>1, MergeIsWhole
    <2> HIDE DEF t
    <2>4. CASE UNCHANGED tReq
      BY <1>3, <2>1, <2>4, IdleRequest, OnlyRequestMoves
    <2>5. CASE B!Validate(t) /\ B!Goto(p, "update", t, "none")
      <3>1. r \in RequestRecord /\ RequestOK(r)
        BY <2>3, <2>5 DEF RequestRecord, RequestOK
      <3>2. RequestMove(p, r)
        BY <2>5 DEF RequestMove, B!Goto
      <3>3. QED
        BY <1>3, <2>1, <3>1, <3>2, OnlyRequestMoves
    <2>6. QED
      BY <2>2, <2>4, <2>5 DEF t
  <1>7. ASSUME NEW p \in Procs, B!handleCreate(p) PROVE RequestsInv'
    <2>1. B!Begin(p) /\ UNCHANGED <<tmpl, key, broadcasts, answers>>
      BY <1>7 DEF B!handleCreate
    <2>2. PICK fp \in Fingerprints \cup {"none"} :
            \/ UNCHANGED tReq
            \/ /\ tmpl # B!NoTemplate
               /\ B!Goto(p, IF fp = "none" THEN "create" ELSE "claim", tmpl, fp)
      BY <1>7 DEF B!handleCreate, B!GetTemplate
    <2> DEFINE r == [pc |-> IF fp = "none" THEN "create" ELSE "claim", content |-> tmpl, fp |-> fp]
    <2>3. CASE UNCHANGED tReq
      BY <1>3, <2>1, <2>3, IdleRequest, OnlyRequestMoves
    <2>4. CASE tmpl # B!NoTemplate /\ B!Goto(p, IF fp = "none" THEN "create" ELSE "claim", tmpl, fp)
      <3>1. tmpl \in B!Template /\ B!Validate(tmpl)
        BY <2>4 DEF RequestsInv, B!AlwaysABody
      <3>2. r \in RequestRecord /\ RequestOK(r)
        BY <3>1 DEF RequestRecord, RequestOK
      <3>3. RequestMove(p, r)
        BY <2>4 DEF RequestMove, B!Goto
      <3>4. QED
        BY <1>3, <2>1, <3>2, <3>3, OnlyRequestMoves
    <2>5. QED
      BY <2>2, <2>3, <2>4
  <1>8. ASSUME NEW p \in Procs, B!Fail(p) PROVE RequestsInv'
    BY <1>8, IdleRequest, OnlyRequestMoves DEF B!Fail, B!Done, RequestMove, RequestsInv
  <1>9. ASSUME NEW p \in Procs, B!resolveIdempotency(p) \/ B!pollIdempotencyCompletion(p) PROVE RequestsInv'
    <2>1. tReq[p].fp \in Fingerprints /\ tReq[p].content \in B!Template /\ B!Validate(tReq[p].content)
      BY <1>4, <1>9 DEF B!resolveIdempotency, B!pollIdempotencyCompletion, B!At, RequestOK, B!BroadcastRequestsAssumption
    <2>2. PICK r \in {B!Idle, [tReq[p] EXCEPT !.pc = "create"], [tReq[p] EXCEPT !.pc = "poll"]} : RequestMove(p, r)
      BY <1>4, <1>9 DEF B!resolveIdempotency, B!pollIdempotencyCompletion, B!Done, RequestMove, RequestsInv
    <2>3. r \in RequestRecord /\ RequestOK(r)
      BY <1>4, <2>1, <2>2, IdleRequest DEF RequestRecord, RequestOK, B!BroadcastRequestsAssumption
    <2>4. /\ UNCHANGED <<tmpl, broadcasts, tMade>>
          /\ answers' = answers \/ (key.status = "completed" /\ answers' = answers \cup {<<tReq[p].fp, key.res>>})
          /\ key' = key \/ /\ key.status # "completed"
                           /\ key' = [fp |-> tReq[p].fp, status |-> "in_progress", res |-> 0, stale |-> FALSE]
                           /\ answers' = answers
      BY <1>9 DEF B!resolveIdempotency, B!pollIdempotencyCompletion, B!loadReplay, B!ClaimIdempotencyKey, B!Owned, B!NoKey
    <2>5. key' \in KeyRow
      <3>1. [fp |-> tReq[p].fp, status |-> "in_progress", res |-> 0, stale |-> FALSE] \in KeyRow
        BY <2>1 DEF KeyRow
      <3>2. QED
        BY <2>4, <3>1 DEF RequestsInv
    <2>6. KeyNamesIt'
      <3>1. CASE key' = key
        BY <2>4, <3>1 DEF RequestsInv, KeyNamesIt, Keyed
      <3>2. CASE /\ key.status # "completed" /\ answers' = answers
                 /\ key' = [fp |-> tReq[p].fp, status |-> "in_progress", res |-> 0, stale |-> FALSE]
        BY <2>4, <3>2 DEF RequestsInv, KeyNamesIt, Keyed
      <3>3. QED
        BY <2>4, <3>1, <3>2
    <2>7. B!AlwaysABody'
      BY <2>4 DEF RequestsInv, B!AlwaysABody
    <2>8. (tReq \in [Procs -> RequestRecord])' /\ (\A q \in Procs : RequestOK(tReq[q]))'
      BY <2>2, <2>3, RequestMoves
    <2>9. QED
      BY <2>4, <2>5, <2>6, <2>7, <2>8 DEF RequestsInv
  <1>10. ASSUME NEW p \in Procs, B!CreateBroadcast(p) PROVE RequestsInv'
    <2> DEFINE b == [content |-> tReq[p].content, key |-> tReq[p].fp]
               n == Len(broadcasts) + 1
    <2>1. tReq[p].content \in B!Template /\ B!Validate(tReq[p].content) /\ b \in B!Broadcast
      BY <1>4, <1>10 DEF B!CreateBroadcast, B!At, RequestOK, B!Broadcast
    <2>2. (tReq \in [Procs -> RequestRecord])' /\ (\A q \in Procs : RequestOK(tReq[q]))'
      BY <1>10, IdleRequest, RequestMoves DEF B!CreateBroadcast, B!Done, RequestMove
    <2>3. CASE ~B!Completes(p)
      <3>1. /\ UNCHANGED <<tmpl, tMade, broadcasts, key>>
            /\ answers' = answers \/ (key.status = "completed" /\ answers' = answers \cup {<<tReq[p].fp, key.res>>})
        BY <1>10, <2>3 DEF B!CreateBroadcast, B!replayIfCompleted, B!loadReplay
      <3>2. KeyNamesIt' /\ B!AlwaysABody'
        BY <3>1 DEF RequestsInv, KeyNamesIt, Keyed, B!AlwaysABody
      <3>3. QED
        BY <2>2, <3>1, <3>2 DEF RequestsInv
    <2>4. CASE B!Completes(p)
      <3>1. /\ UNCHANGED <<tmpl, tMade>> /\ broadcasts' = Append(broadcasts, b)
            /\ key' = IF tReq[p].fp = "none" THEN key ELSE [key EXCEPT !.status = "completed", !.res = n]
            /\ answers' = IF tReq[p].fp = "none" THEN answers ELSE answers \cup {<<tReq[p].fp, n>>}
        BY <1>10, <2>4 DEF B!CreateBroadcast
      <3>2. n \in Nat /\ broadcasts \in Seq(B!Broadcast)
        BY DEF RequestsInv
      <3>3. /\ broadcasts' \in Seq(B!Broadcast) /\ DOMAIN broadcasts' = DOMAIN broadcasts \cup {n}
            /\ broadcasts'[n] = b /\ n \notin DOMAIN broadcasts
            /\ \A i \in DOMAIN broadcasts : broadcasts'[i] = broadcasts[i]
        BY <2>1, <3>1, <3>2
      <3>4. b.content = tReq[p].content /\ b.key = tReq[p].fp
        OBVIOUS
      <3> HIDE DEF b, n
      <3>5. B!AlwaysABody'
        BY <2>1, <3>1, <3>3, <3>4 DEF RequestsInv, B!AlwaysABody, B!Validate
      <3>6. CASE tReq[p].fp = "none"
        <4>1. Keyed' = Keyed
          BY <3>3, <3>4, <3>6 DEF Keyed
        <4>2. QED
          BY <2>2, <3>1, <3>3, <3>5, <3>6, <4>1 DEF RequestsInv, KeyNamesIt
      <3>7. CASE tReq[p].fp # "none"
        <4>1. key.status = "in_progress" /\ Keyed = {} /\ answers = {}
          BY <2>4, <3>7 DEF B!Completes, RequestsInv, KeyNamesIt
        <4>2. Keyed' = {n}
          BY <3>3, <3>4, <3>7, <4>1 DEF Keyed
        <4>3. key' \in KeyRow /\ key'.status = "completed" /\ key'.res = n
          BY <3>1, <3>2, <3>7 DEF RequestsInv, KeyRow
        <4>4. \A a \in answers' : a[2] = n
          BY <3>1, <3>7, <4>1
        <4>5. QED
          BY <2>2, <3>1, <3>3, <3>5, <4>2, <4>3, <4>4 DEF RequestsInv, KeyNamesIt
      <3>8. QED
        BY <3>6, <3>7
    <2>5. QED
      BY <2>3, <2>4
  <1>11. QED
    BY <1>1, <1>2, <1>5, <1>6, <1>7, <1>8, <1>9, <1>10 DEF B!Next

(* The requests by themselves are sound.                                    *)
LEMMA RequestsAlone ==
  ASSUME B!BroadcastRequestsAssumption PROVE B!Spec => []B!RequestsAreSound
  <1>1. RequestsInv => B!RequestsAreSound
    <2> SUFFICES ASSUME RequestsInv PROVE B!RequestsAreSound
      OBVIOUS
    <2>1. B!TypeOK /\ B!AlwaysABody
      BY DEF RequestsInv, B!TypeOK, KeyRow
    <2>2. Keyed = {} \/ Keyed = {key.res}
      BY DEF RequestsInv, KeyNamesIt
    <2>3. Cardinality(Keyed) <= 1
      BY <2>2, FS_EmptySet, FS_Singleton
    <2>4. \A a \in answers : a[2] \in Keyed
      BY DEF RequestsInv, KeyNamesIt
    <2>5. B!OneBroadcastPerKey
      BY <2>3, <2>4, KeyedCount DEF B!OneBroadcastPerKey, Keyed
    <2>6. QED
      BY <2>1, <2>5 DEF B!RequestsAreSound
  <1>2. QED
    BY RequestsInit, RequestsStep, <1>1, PTL DEF B!Spec

-----------------------------------------------------------------------------
(* Sender domains and their keys.                                           *)

CheckRecord == [pc: {"idle", "lookup", "verified", "absent", "generate", "find", "activate"}, d: Nat, k: Nat]

(* A check names a row, and one that found a token found that row's.        *)
CheckOK(r) ==
  /\ r.pc # "idle" => r.d \in DOMAIN vRows
  /\ r.pc = "verified" => r.d \in proven

DomainInv ==
  /\ V!TypeOK /\ vReq \in [Procs -> CheckRecord] /\ (\A p \in Procs : CheckOK(vReq[p]))
  /\ V!VerifiedWasProven

(* A table whose rows are rewritten in place, or to which a row is added. *)
LEMMA RowsRewritten ==
  ASSUME NEW X, NEW s \in Seq(X), NEW t, t = [i \in DOMAIN s |-> t[i]], \A i \in DOMAIN s : t[i] \in X
  PROVE  t \in Seq(X) /\ DOMAIN t = DOMAIN s
  <1>1. Len(s) \in Nat /\ DOMAIN s = 1..Len(s)
    OBVIOUS
  <1>2. t \in [1..Len(s) -> X]
    BY <1>1
  <1>3. QED
    BY <1>1, <1>2

(* Appending a row changes none of the others.                              *)
LEMMA RowAdded ==
  ASSUME NEW X, NEW s \in Seq(X), NEW x \in X
  PROVE  /\ Append(s, x) \in Seq(X) /\ DOMAIN Append(s, x) = DOMAIN s \cup {Len(s) + 1}
         /\ Len(s) + 1 \notin DOMAIN s /\ Append(s, x)[Len(s) + 1] = x
         /\ \A i \in DOMAIN s : Append(s, x)[i] = s[i]
  OBVIOUS

(* The resting check is a check and nothing is expected of it.              *)
LEMMA IdleCheck == V!Idle \in CheckRecord /\ CheckOK(V!Idle) /\ V!Idle.pc = "idle"
  BY DEF V!Idle, CheckRecord, CheckOK

(* The invariant holds before any domain was added.                         *)
LEMMA DomainInit == ASSUME V!SenderDomainsAssumption PROVE V!Init => DomainInv
  <1> SUFFICES ASSUME V!Init PROVE DomainInv
    OBVIOUS
  <1>1. V!TypeOK
    BY DEF V!Init, V!TypeOK, V!SenderDomainsAssumption
  <1>2. vReq \in [Procs -> CheckRecord] /\ \A p \in Procs : CheckOK(vReq[p])
    BY IdleCheck DEF V!Init
  <1>3. V!VerifiedWasProven
    BY DEF V!Init, V!VerifiedWasProven
  <1>4. QED
    BY <1>1, <1>2, <1>3 DEF DomainInv

(* What a step of a check leaves alone: rows are only added, proofs kept.   *)
CheckMove(p, r) == vReq' = [vReq EXCEPT ![p] = r]
RowsKept ==
  /\ vRows' \in Seq(V!Domain) /\ DOMAIN vRows \subseteq DOMAIN vRows' /\ proven \subseteq proven'
  /\ keys' \in Seq(V!DKIMKey) /\ DOMAIN keys \subseteq DOMAIN keys'
  /\ vTxt' \subseteq DOMAIN vRows' /\ pub' \subseteq DOMAIN keys' /\ vMade' \in 0..MaxDomainRequests

(* A check that moves to a place it can justify disturbs nobody.            *)
LEMMA CheckMoves ==
  ASSUME DomainInv, NEW p \in Procs, NEW r \in CheckRecord, CheckOK(r) \/ CheckOK(r)',
         CheckMove(p, r) \/ UNCHANGED vReq, RowsKept, V!VerifiedWasProven'
  PROVE  DomainInv'
  <1>1. V!TypeOK'
    BY DEF RowsKept, V!TypeOK
  <1>3. ASSUME NEW x, CheckOK(x) PROVE x.pc # "idle" => x.d \in DOMAIN vRows'
    BY <1>3 DEF CheckOK, RowsKept
  <1>4. ASSUME NEW x, CheckOK(x) PROVE x.pc = "verified" => x.d \in proven'
    BY <1>4 DEF CheckOK, RowsKept
  <1>5. vReq' \in [Procs -> CheckRecord] /\ \A q \in Procs : vReq'[q] = vReq[q] \/ vReq'[q] = r
    BY DEF DomainInv, CheckMove
  <1>6. \A q \in Procs : CheckOK(vReq[q])'
    BY <1>3, <1>4, <1>5 DEF CheckOK, DomainInv
  <1>7. QED
    BY <1>1, <1>5, <1>6 DEF DomainInv

(* Every step of the domain handlers keeps the invariant.                   *)
LEMMA DomainStep == ASSUME V!SenderDomainsAssumption PROVE DomainInv /\ [V!Next]_V!vars => DomainInv'
  <1> SUFFICES ASSUME DomainInv, [V!Next]_V!vars PROVE DomainInv'
    OBVIOUS
  <1> USE DEF V!SenderDomainsAssumption
  <1>1. CASE UNCHANGED V!vars
    BY <1>1 DEF V!vars, DomainInv, V!TypeOK, CheckOK, V!VerifiedWasProven
  <1>2. CASE V!DnsChanges
    <2>1. (V!TypeOK /\ V!VerifiedWasProven)'
      BY <1>2 DEF V!DnsChanges, DomainInv, V!TypeOK, V!VerifiedWasProven
    <2>2. QED
      BY <1>2, <2>1 DEF V!DnsChanges, DomainInv, CheckOK
  <1>3. ASSUME NEW p \in Procs, V!Begin(p) PROVE vMade' \in 0..MaxDomainRequests
    BY <1>3 DEF V!Begin, DomainInv, V!TypeOK
  <1>4. ASSUME NEW p \in Procs PROVE vReq[p] \in CheckRecord /\ CheckOK(vReq[p])
    BY DEF DomainInv
  <1>5. ASSUME vMade' \in 0..MaxDomainRequests, UNCHANGED <<vRows, keys, vTxt, pub>>, proven \subseteq proven'
        PROVE RowsKept /\ V!VerifiedWasProven'
    BY <1>5 DEF RowsKept, DomainInv, V!TypeOK, V!VerifiedWasProven
  <1>6. ASSUME NEW p \in Procs,
               V!handleVerify(p) \/ V!handleCreateKey(p) \/ V!handleVerifyKey(p) \/ V!FindKey(p) \/ V!Fail(p)
        PROVE DomainInv'
    <2>1. UNCHANGED <<vRows, keys, vTxt, pub, proven>> /\ vMade' \in 0..MaxDomainRequests
      BY <1>3, <1>6 DEF V!handleVerify, V!handleCreateKey, V!handleVerifyKey, V!FindKey, V!Fail, DomainInv, V!TypeOK
    <2>2. RowsKept /\ V!VerifiedWasProven'
      BY <1>5, <2>1
    <2>3. PICK r : r \in CheckRecord /\ CheckOK(r) /\ (CheckMove(p, r) \/ UNCHANGED vReq)
      <3>1. CASE V!handleVerify(p)
        <4>1. PICK d \in DOMAIN vRows : V!Verify(p, d)
          BY <3>1 DEF V!handleVerify
        <4> DEFINE r == [pc |-> "lookup", d |-> d, k |-> 0]
        <4>2. r \in CheckRecord /\ CheckOK(r)
          BY DEF CheckRecord, CheckOK, DomainInv, V!TypeOK
        <4>3. CheckMove(p, r) \/ UNCHANGED vReq
          BY <4>1 DEF V!Verify, V!Goto, CheckMove
        <4>4. QED
          BY <4>2, <4>3
      <3>2. CASE V!handleCreateKey(p)
        <4>1. PICK d \in DOMAIN vRows : V!CreateKey(p, d)
          BY <3>2 DEF V!handleCreateKey
        <4> DEFINE r == [pc |-> "generate", d |-> d, k |-> 0]
        <4>2. r \in CheckRecord /\ CheckOK(r)
          BY DEF CheckRecord, CheckOK, DomainInv, V!TypeOK
        <4>3. CheckMove(p, r) \/ UNCHANGED vReq
          BY <4>1 DEF V!CreateKey, V!Goto, CheckMove
        <4>4. QED
          BY <4>2, <4>3
      <3>3. CASE V!handleVerifyKey(p)
        <4>1. PICK d \in DOMAIN vRows : V!VerifyPending(p, d)
          BY <3>3 DEF V!handleVerifyKey
        <4>2. CASE UNCHANGED vReq
          BY <4>2, IdleCheck
        <4>3. ASSUME NEW n \in DOMAIN keys, V!Goto(p, "find", d, n)
              PROVE \E r : r \in CheckRecord /\ CheckOK(r) /\ (CheckMove(p, r) \/ UNCHANGED vReq)
          <5> DEFINE r == [pc |-> "find", d |-> d, k |-> n]
          <5>1. r \in CheckRecord /\ CheckOK(r)
            BY DEF CheckRecord, CheckOK, DomainInv, V!TypeOK
          <5>2. CheckMove(p, r)
            BY <4>3 DEF V!Goto, CheckMove
          <5>3. QED
            BY <5>1, <5>2
        <4>4. QED
          BY <4>1, <4>2, <4>3 DEF V!VerifyPending, V!KeysOf
      <3>4. CASE V!FindKey(p)
        <4> DEFINE r == [pc |-> "activate", d |-> vReq[p].d, k |-> vReq[p].k]
        <4>1. r \in CheckRecord /\ CheckOK(r)
          BY <1>4, <3>4 DEF CheckRecord, CheckOK, V!FindKey, V!At
        <4>2. CheckMove(p, r) \/ CheckMove(p, V!Idle)
          BY <3>4 DEF V!FindKey, V!Goto, V!Done, CheckMove
        <4>3. QED
          BY <4>1, <4>2, IdleCheck
      <3>5. CASE V!Fail(p)
        BY <3>5, IdleCheck DEF V!Fail, V!Done, CheckMove
      <3>6. QED
        BY <1>6, <3>1, <3>2, <3>3, <3>4, <3>5
    <2>4. QED
      BY <2>2, <2>3, CheckMoves
  <1>7. ASSUME NEW p \in Procs, V!LookupTXT(p) PROVE DomainInv'
    <2> DEFINE d == vReq[p].d
               found == [pc |-> "verified", d |-> d, k |-> 0]
               absent == [pc |-> "absent", d |-> d, k |-> 0]
    <2>1. UNCHANGED <<vRows, keys, vTxt, pub, vMade>> /\ proven \subseteq proven'
      BY <1>7 DEF V!LookupTXT
    <2>2. RowsKept /\ V!VerifiedWasProven'
      BY <1>5, <2>1 DEF DomainInv, V!TypeOK
    <2>3. d \in DOMAIN vRows /\ d \in Nat
      BY <1>4, <1>7 DEF V!LookupTXT, V!At, CheckOK, CheckRecord
    <2>4. \/ CheckMove(p, V!Idle) \/ CheckMove(p, absent)
          \/ CheckMove(p, found) /\ proven' = proven \cup {d}
      BY <1>7 DEF V!LookupTXT, V!Goto, V!Done, CheckMove
    <2>5. found \in CheckRecord /\ absent \in CheckRecord /\ CheckOK(absent)
      BY <2>3 DEF CheckRecord, CheckOK
    <2>6. CASE CheckMove(p, found) /\ proven' = proven \cup {d}
      <3>1. PICK r : r = found
        OBVIOUS
      <3>2. r \in CheckRecord /\ r.d = d /\ CheckMove(p, r)
        BY <2>5, <2>6, <3>1
      <3>3. r.d \in DOMAIN vRows' /\ r.d \in proven'
        BY <2>1, <2>3, <2>6, <3>2
      <3>4. CheckOK(r)'
        BY <3>3 DEF CheckOK
      <3>5. QED
        BY <2>2, <3>2, <3>4, CheckMoves
    <2>7. QED
      BY <2>2, <2>4, <2>5, <2>6, IdleCheck, CheckMoves
  <1>8. ASSUME NEW p \in Procs, V!handleCreateDomain(p) PROVE DomainInv'
    <2>1. PICK t \in Tenants : vRows' = Append(vRows, [tenant |-> t, status |-> "pending"])
      BY <1>8 DEF V!handleCreateDomain, V!CreateDomain
    <2> DEFINE x == [tenant |-> t, status |-> "pending"]
    <2>2. x \in V!Domain /\ x.status = "pending"
      BY DEF V!Domain, V!DomainStatus
    <2>3. vRows \in Seq(V!Domain) /\ UNCHANGED <<keys, vTxt, pub, vReq, proven, seen>> /\ vMade' \in 0..MaxDomainRequests
      BY <1>3, <1>8 DEF V!handleCreateDomain, DomainInv, V!TypeOK
    <2> HIDE DEF x
    <2>4. RowsKept
      BY <2>1, <2>2, <2>3, RowAdded DEF RowsKept, DomainInv, V!TypeOK, x
    <2>5. V!VerifiedWasProven'
      BY <2>1, <2>2, <2>3, RowAdded DEF DomainInv, V!VerifiedWasProven, x
    <2>6. QED
      BY <2>3, <2>4, <2>5, IdleCheck, CheckMoves
  <1>9. ASSUME NEW p \in Procs, V!RecordDomainCheck(p) PROVE DomainInv'
    <2> DEFINE d == vReq[p].d
    <2>1. UNCHANGED <<keys, vTxt, pub, vMade, proven>> /\ CheckMove(p, V!Idle)
      BY <1>9 DEF V!RecordDomainCheck, V!Done, CheckMove
    <2>2. /\ vRows' = [i \in DOMAIN vRows |-> vRows'[i]]
          /\ \A i \in DOMAIN vRows : \/ vRows'[i] = vRows[i]
                                     \/ i = d /\ vReq[p].pc = "verified" /\ vRows'[i] = [vRows[i] EXCEPT !.status = "verified"]
      BY <1>9 DEF V!RecordDomainCheck, V!Target, V!At
    <2>3. \A i \in DOMAIN vRows : vRows[i] \in V!Domain
      BY DEF DomainInv, V!TypeOK
    <2>4. \A i \in DOMAIN vRows : vRows'[i] \in V!Domain
      BY <2>2, <2>3 DEF V!Domain, V!DomainStatus
    <2>5. vRows' \in Seq(V!Domain) /\ DOMAIN vRows' = DOMAIN vRows
      BY <2>2, <2>4, RowsRewritten DEF DomainInv, V!TypeOK
    <2>6. RowsKept
      BY <2>1, <2>5 DEF RowsKept, DomainInv, V!TypeOK
    <2>7. vReq[p].pc = "verified" => d \in proven
      BY <1>4 DEF CheckOK
    <2>8. V!VerifiedWasProven'
      BY <2>1, <2>2, <2>5, <2>7 DEF DomainInv, V!VerifiedWasProven
    <2>9. QED
      BY <2>1, <2>6, <2>8, IdleCheck, CheckMoves
  <1>10. ASSUME NEW p \in Procs, V!handleDeleteDomain(p) PROVE DomainInv'
    <2>1. PICK d \in DOMAIN vRows : V!DeleteDomain(d)
      BY <1>10 DEF V!handleDeleteDomain
    <2>2. UNCHANGED <<vTxt, pub, vReq, proven>> /\ vMade' \in 0..MaxDomainRequests
      BY <1>3, <1>10 DEF V!handleDeleteDomain
    <2>3. /\ vRows' = [i \in DOMAIN vRows |-> vRows'[i]]
          /\ \A i \in DOMAIN vRows : vRows'[i] = vRows[i] \/ vRows'[i] = [vRows[i] EXCEPT !.status = "deleted"]
      BY <2>1 DEF V!DeleteDomain
    <2>4. /\ keys' = [i \in DOMAIN keys |-> keys'[i]]
          /\ \A i \in DOMAIN keys : keys'[i] = keys[i] \/ keys'[i] = [keys[i] EXCEPT !.status = "gone"]
      BY <2>1 DEF V!DeleteDomain
    <2>5. (\A i \in DOMAIN vRows : vRows[i] \in V!Domain) /\ \A i \in DOMAIN keys : keys[i] \in V!DKIMKey
      BY DEF DomainInv, V!TypeOK
    <2>6. \A i \in DOMAIN vRows : vRows'[i] \in V!Domain /\ (vRows'[i].status = "verified" => vRows[i].status = "verified")
      BY <2>3, <2>5 DEF V!Domain, V!DomainStatus
    <2>7. \A i \in DOMAIN keys : keys'[i] \in V!DKIMKey
      BY <2>4, <2>5 DEF V!DKIMKey, V!DKIMStatus
    <2>8. vRows' \in Seq(V!Domain) /\ DOMAIN vRows' = DOMAIN vRows
      BY <2>3, <2>6, RowsRewritten DEF DomainInv, V!TypeOK
    <2>9. keys' \in Seq(V!DKIMKey) /\ DOMAIN keys' = DOMAIN keys
      BY <2>4, <2>7, RowsRewritten DEF DomainInv, V!TypeOK
    <2>10. RowsKept
      BY <2>2, <2>8, <2>9 DEF RowsKept, DomainInv, V!TypeOK
    <2>11. V!VerifiedWasProven'
      BY <2>2, <2>6, <2>8 DEF DomainInv, V!VerifiedWasProven
    <2>12. QED
      BY <2>2, <2>10, <2>11, IdleCheck, CheckMoves
  <1>11. ASSUME NEW p \in Procs, V!CreateDKIMKey(p) PROVE DomainInv'
    <2> DEFINE x == [row |-> vReq[p].d, status |-> "pending"]
    <2>1. UNCHANGED <<vRows, vTxt, pub, vMade, proven>> /\ CheckMove(p, V!Idle) /\ keys' \in {keys, Append(keys, x)}
      BY <1>11 DEF V!CreateDKIMKey, V!Done, CheckMove
    <2>2. x \in V!DKIMKey
      BY <1>4 DEF CheckRecord, V!DKIMKey, V!DKIMStatus
    <2> HIDE DEF x
    <2>3. RowsKept
      <3>1. keys \in Seq(V!DKIMKey)
        BY DEF DomainInv, V!TypeOK
      <3>2. keys' \in Seq(V!DKIMKey) /\ DOMAIN keys \subseteq DOMAIN keys'
        BY <2>1, <2>2, <3>1, RowAdded
      <3>3. QED
        BY <2>1, <3>2 DEF RowsKept, DomainInv, V!TypeOK
    <2>4. V!VerifiedWasProven'
      BY <2>1 DEF DomainInv, V!VerifiedWasProven
    <2>5. QED
      BY <2>1, <2>3, <2>4, IdleCheck, CheckMoves
  <1>12. ASSUME NEW p \in Procs, V!ActivateDKIMKey(p) PROVE DomainInv'
    <2>1. UNCHANGED <<vRows, vTxt, pub, vMade, proven>> /\ CheckMove(p, V!Idle)
      BY <1>12 DEF V!ActivateDKIMKey, V!Done, CheckMove
    <2>2. CASE keys' = keys
      <3>1. RowsKept /\ V!VerifiedWasProven'
        BY <2>1, <2>2, <1>5 DEF DomainInv, V!TypeOK
      <3>2. QED
        BY <2>1, <3>1, IdleCheck, CheckMoves
    <2>3. CASE keys' # keys
      <3>1. /\ keys' = [i \in DOMAIN keys |-> keys'[i]]
            /\ \A i \in DOMAIN keys : \/ keys'[i] = keys[i] \/ keys'[i] = [keys[i] EXCEPT !.status = "retired"]
                                      \/ keys'[i] = [keys[i] EXCEPT !.status = "active"]
        BY <1>12, <2>3 DEF V!ActivateDKIMKey, V!Activated
      <3>2. \A i \in DOMAIN keys : keys[i] \in V!DKIMKey
        BY DEF DomainInv, V!TypeOK
      <3>3. \A i \in DOMAIN keys : keys'[i] \in V!DKIMKey
        BY <3>1, <3>2 DEF V!DKIMKey, V!DKIMStatus
      <3>4. keys' \in Seq(V!DKIMKey) /\ DOMAIN keys' = DOMAIN keys
        BY <3>1, <3>3, RowsRewritten DEF DomainInv, V!TypeOK
      <3>5. RowsKept
        BY <2>1, <3>4 DEF RowsKept, DomainInv, V!TypeOK
      <3>6. V!VerifiedWasProven'
        BY <2>1 DEF DomainInv, V!VerifiedWasProven
      <3>7. QED
        BY <2>1, <3>5, <3>6, IdleCheck, CheckMoves
    <2>4. QED
      BY <2>2, <2>3
  <1>13. QED
    BY <1>1, <1>2, <1>6, <1>7, <1>8, <1>9, <1>10, <1>11, <1>12 DEF V!Next

(* The domains by themselves were proven.                                   *)
LEMMA VerifiedAlone ==
  ASSUME V!SenderDomainsAssumption PROVE V!Spec => [](V!TypeOK /\ V!VerifiedWasProven)
  <1>1. DomainInv => V!TypeOK /\ V!VerifiedWasProven
    BY DEF DomainInv
  <1>2. QED
    BY DomainInit, DomainStep, <1>1, PTL DEF V!Spec

(* The step of SigningNeverPauses. *)
GoesOnSigning(d) ==
  V!KeysOf(d, "active") # {} /\ vRows'[d].status # "deleted"
    => \E k \in DOMAIN keys' : keys'[k].row = d /\ keys'[k].status = "active"

(* No step leaves a signing domain without its key.                         *)
LEMMA SigningStep ==
  ASSUME DomainInv, [V!Next]_V!vars, NEW d \in DOMAIN vRows PROVE GoesOnSigning(d)
  <1> SUFFICES ASSUME V!KeysOf(d, "active") # {}, vRows'[d].status # "deleted"
               PROVE \E k \in DOMAIN keys' : keys'[k].row = d /\ keys'[k].status = "active"
    BY DEF GoesOnSigning
  <1>1. PICK a \in DOMAIN keys : keys[a].row = d /\ keys[a].status = "active"
    BY DEF V!KeysOf
  <1>2. CASE UNCHANGED keys
    BY <1>1, <1>2
  <1>3. ASSUME NEW p \in Procs, V!handleDeleteDomain(p) PROVE keys'[a] = keys[a] /\ a \in DOMAIN keys'
    <2>1. PICK e \in DOMAIN vRows : V!DeleteDomain(e)
      BY <1>3 DEF V!handleDeleteDomain
    <2>2. vRows[e] \in V!Domain
      BY DEF DomainInv, V!TypeOK
    <2>3. e # d
      BY <2>1, <2>2 DEF V!DeleteDomain, V!Domain
    <2>4. QED
      BY <1>1, <2>1, <2>3 DEF V!DeleteDomain
  <1>4. ASSUME NEW p \in Procs, V!CreateDKIMKey(p) PROVE keys'[a] = keys[a] /\ a \in DOMAIN keys'
    BY <1>4 DEF V!CreateDKIMKey, DomainInv, V!TypeOK
  <1>5. ASSUME NEW p \in Procs, V!ActivateDKIMKey(p) PROVE \E k \in DOMAIN keys' : keys'[k].row = d /\ keys'[k].status = "active"
    <2> DEFINE e == vReq[p].d
    <2>1. CASE keys' = keys
      BY <1>1, <2>1
    <2>2. CASE keys' # keys
      <3>1. PICK b \in DOMAIN keys : keys[b].row = e /\ keys[b].status = "pending"
        BY <1>5, <2>2 DEF V!ActivateDKIMKey, V!Activated, V!KeysOf
      <3>2. /\ DOMAIN keys' = DOMAIN keys /\ keys'[b] = [keys[b] EXCEPT !.status = "active"]
            /\ e # d => keys'[a] = keys[a]
        BY <1>1, <1>5, <2>2, <3>1 DEF V!ActivateDKIMKey, V!Activated, V!KeysOf
      <3>3. keys[b] \in V!DKIMKey
        BY DEF DomainInv, V!TypeOK
      <3>4. keys'[b].row = e /\ keys'[b].status = "active"
        BY <3>1, <3>2, <3>3 DEF V!DKIMKey
      <3>5. QED
        BY <1>1, <3>2, <3>4
    <2>3. QED
      BY <2>1, <2>2
  <1>6. CASE keys' # keys
    BY <1>1, <1>3, <1>4, <1>5, <1>6 DEF V!Next, V!vars, V!DnsChanges, V!handleCreateDomain, V!handleVerify, V!LookupTXT,
       V!RecordDomainCheck, V!handleCreateKey, V!handleVerifyKey, V!FindKey, V!Fail
  <1>7. QED
    BY <1>2, <1>6

(* The domains by themselves go on signing.                                 *)
LEMMA SigningAlone ==
  ASSUME V!SenderDomainsAssumption PROVE V!Spec => V!SigningNeverPauses
  <1>1. DomainInv /\ [V!Next]_V!vars => [\A d \in DOMAIN vRows : GoesOnSigning(d)]_V!vars
    BY SigningStep
  <1>2. QED
    BY DomainInit, DomainStep, <1>1, PTL DEF V!Spec, V!SigningNeverPauses, GoesOnSigning

-----------------------------------------------------------------------------
(* One delivery operation.                                                  *)

(* Stages before a server sees MAIL FROM, and after it took MAIL FROM.      *)
Early == {"lookup", "next", "dial", "greeting", "ehlo", "helo", "secure", "starttls", "tls_handshake",
          "ehlo_tls", "authenticate", "auth", "mail_from"}
Late == {"rcpt_to", "data", "message_transfer", "data_response"}

OperationTypes ==
  /\ config \in [relay: BOOLEAN, creds: BOOLEAN, tls: O!TLSPolicy]
  /\ conn \in [tls: BOOLEAN, caps: SUBSET {"STARTTLS", "AUTH"}, rcpts: Nat]
  /\ result \in [kind: O!Kinds, temporary: BOOLEAN] /\ canceled \in BOOLEAN
  /\ oPc \in Early \cup Late \cup {"quit", "done"}
  /\ todo \in Seq(O!MX) /\ oAttempts \in Seq(O!MX)
  /\ wire = [mail |-> wire.mail, took |-> wire.took]

(* There is a candidate to try, and in a session one was.                   *)
CandidatesLeft ==
  /\ oPc = "lookup" => oAttempts = << >>
  /\ oPc = "next" => todo # << >>
  /\ oPc \notin {"lookup", "next", "done"} => oAttempts # << >>

(* The transport is what the stages before have made of it. *)
TransportOK ==
  /\ leaked = FALSE
  /\ oPc \in {"ehlo_tls", "auth"} => conn.tls = TRUE
  /\ oPc \in {"authenticate", "mail_from"} /\ config.tls = "required" => conn.tls = TRUE

(* MAIL FROM is sent to the last candidate tried, and decideFallback leaves *)
(* it only for the end.                                                     *)
OfferOK ==
  /\ oPc \in Early => wire.mail = {} /\ wire.took = {} /\ result.kind = "none"
  /\ oPc \in Late => wire.mail = {oAttempts[Len(oAttempts)]} /\ wire.took = {} /\ result.kind = "none"
  /\ oPc \in {"quit", "done"} =>
       /\ \A x, y \in wire.mail : x = y
       /\ result.kind = "accepted" => \E h \in wire.took : wire.took = {h}

(* A sequence of candidates: safe hosts by preference, none twice. *)
Ordered(s) ==
  \A i \in DOMAIN s :
    /\ O!hostSafe(s[i].host)
    /\ \A j \in DOMAIN s : i < j => s[i].pref <= s[j].pref /\ s[i] # s[j]

OrderOK ==
  /\ Ordered(oAttempts) /\ Ordered(todo)
  /\ \A i \in DOMAIN oAttempts, j \in DOMAIN todo :
       oAttempts[i].pref <= todo[j].pref /\ oAttempts[i] # todo[j]

OperationInv == OperationTypes /\ CandidatesLeft /\ TransportOK /\ OfferOK /\ OrderOK

(* Of values in Nat one is the least. *)
LEMMA LeastValue ==
  ASSUME NEW X, X # {}, NEW f \in [X -> Nat]
  PROVE  \E x \in X : \A y \in X : f[x] <= f[y]
  <1> DEFINE values == {f[x] : x \in X}
  <1>1. values \subseteq Nat /\ values # {}
    OBVIOUS
  <1>2. PICK n \in values : \A m \in values : ~(<<m, n>> \in OpToRel(<, Nat))
    <2> HIDE DEF values
    <2> QED
      BY <1>1, NatLessThanWellFounded, WFMin
  <1>3. \A m \in values : ~(m < n)
    BY <1>1, <1>2 DEF OpToRel
  <1>4. PICK x \in X : f[x] = n
    BY <1>2
  <1>5. ASSUME NEW y \in X PROVE f[x] <= f[y]
    <2>1. ~(f[y] < f[x])
      BY <1>3, <1>4
    <2>2. f[x] \in Nat /\ f[y] \in Nat
      OBVIOUS
    <2> QED
      BY <2>1, <2>2
  <1> QED
    BY <1>5

(* The instance counts the way FiniteSets does.                             *)
LEMMA CandidateCount == \A X : O!Cardinality(X) = Cardinality(X)
  BY DEF O!Cardinality, Cardinality

(* What sortAndDedup returns: each of the records at safe positions that are *)
(* the first of their kind, by preference.                                  *)
LEMMA SortedCandidates ==
  ASSUME O!OutboundSmtpAssumption, NEW n \in Nat, NEW records \in [1..n -> O!MX],
         NEW ps \in SUBSET (1..n), \A i \in ps : O!hostSafe(records[i].host),
         NEW out, out = O!sortAndDedup(records, ps)
  PROVE  out \in Seq(O!MX) /\ Ordered(out) /\ (ps # {} => out # << >>)
  <1> DEFINE first == O!Firsts(records, ps)
             below == [i \in first |-> {j \in first : O!Precedes(records, j, i)}]
  <1>1. Prefs \subseteq Nat
    BY DEF O!OutboundSmtpAssumption
  <1>2. first \in SUBSET (1..n) /\ first \subseteq ps
    BY DEF O!Firsts
  <1>3. IsFiniteSet(first) /\ Cardinality(first) \in Nat
    <2>1. IsFiniteSet(1..n)
      BY FS_Interval
    <2> QED
      BY <1>2, <2>1, FS_Subset, FS_CardinalityType
  <1>4. \A i \in first : i \in Nat /\ records[i] \in O!MX /\ records[i].pref \in Nat
    <2> SUFFICES ASSUME NEW i \in first PROVE i \in Nat /\ records[i] \in O!MX /\ records[i].pref \in Nat
      OBVIOUS
    <2>1. i \in 1..n /\ records[i] \in O!MX
      BY <1>2
    <2>2. records[i].pref \in Prefs
      BY <2>1 DEF O!MX
    <2>3. i \in Nat
      BY <2>1
    <2>4. records[i].pref \in Nat
      BY <2>2, <1>1
    <2> QED
      BY <2>1, <2>3, <2>4
  <1>5. \A i, j \in first : i # j => records[i] # records[j]
    <2> SUFFICES ASSUME NEW i \in first, NEW j \in first, i # j, records[i] = records[j] PROVE FALSE
      OBVIOUS
    <2>1. i \in Nat /\ j \in Nat
      BY <1>4
    <2>2. i < j \/ j < i
      BY <2>1
    <2> QED
      BY <2>2 DEF O!Firsts
  <1> HIDE DEF first
  <1>6. /\ \A i \in first : ~O!Precedes(records, i, i)
        /\ \A i, j, k \in first : O!Precedes(records, i, j) /\ O!Precedes(records, j, k) => O!Precedes(records, i, k)
        /\ \A i, j \in first : i = j \/ O!Precedes(records, i, j) \/ O!Precedes(records, j, i)
    BY <1>4 DEF O!Precedes
  <1>7. below \in [first -> SUBSET first] /\ \A i, j \in first : j \in below[i] <=> O!Precedes(records, j, i)
    OBVIOUS
  <1>8. \A k : O!Place(records, first, k) = CHOOSE i \in first : Cardinality(below[i]) = k
    BY CandidateCount DEF O!Place
  <1> HIDE DEF below
  <1>9. /\ \A i, j \in first : i \in below[j] => Cardinality(below[i]) < Cardinality(below[j])
        /\ \A i \in first : Cardinality(below[i]) \in Nat
        /\ \A k \in Nat : k < Cardinality(first) => \E i \in first : Cardinality(below[i]) = k
    <2>1. /\ \A x \in first : x \notin below[x]
          /\ \A x, y, z \in first : x \in below[y] /\ y \in below[z] => x \in below[z]
          /\ \A x, y \in first : x = y \/ x \in below[y] \/ y \in below[x]
      BY <1>6, <1>7
    <2> QED
      BY <2>1, <1>3, <1>7, RanksAreTaken
  <1> DEFINE place == [k \in 1..Cardinality(first) |-> O!Place(records, first, k - 1)]
  <1>10. ASSUME NEW k \in 1..Cardinality(first) PROVE place[k] \in first /\ Cardinality(below[place[k]]) = k - 1
    <2>1. \E i \in first : Cardinality(below[i]) = k - 1
      BY <1>3, <1>9
    <2> QED
      BY <2>1, <1>8
  <1>11. DOMAIN out = 1..Cardinality(first) /\ \A k \in 1..Cardinality(first) : out[k] = records[place[k]]
    BY CandidateCount DEF O!sortAndDedup, first
  <1> HIDE DEF place
  <1>12. out \in Seq(O!MX)
    <2>1. out = [k \in 1..Cardinality(first) |-> out[k]]
      BY CandidateCount DEF O!sortAndDedup, first
    <2>2. \A k \in 1..Cardinality(first) : out[k] \in O!MX
      BY <1>4, <1>10, <1>11
    <2> QED
      BY <2>1, <2>2, <1>3
  <1>13. ASSUME NEW k \in DOMAIN out, NEW l \in DOMAIN out, k < l PROVE out[k].pref <= out[l].pref /\ out[k] # out[l]
    <2>1. place[k] \in first /\ place[l] \in first
          /\ Cardinality(below[place[k]]) = k - 1 /\ Cardinality(below[place[l]]) = l - 1
      BY <1>10, <1>11
    <2>2. k \in Nat /\ l \in Nat
      BY <1>11
    <2>3. place[k] # place[l] /\ ~O!Precedes(records, place[l], place[k])
      BY <2>1, <2>2, <1>7, <1>9, <1>13
    <2>4. O!Precedes(records, place[k], place[l])
      BY <2>1, <2>3, <1>6
    <2>5. records[place[k]].pref <= records[place[l]].pref
      BY <2>1, <2>4, <1>4 DEF O!Precedes
    <2> QED
      BY <2>1, <2>3, <2>5, <1>5, <1>11
  <1>14. ASSUME NEW k \in DOMAIN out PROVE O!hostSafe(out[k].host)
    BY <1>2, <1>10, <1>11
  <1>15. ASSUME ps # {} PROVE out # << >>
    <2>1. first # {}
      <3>1. PICK i \in ps : \A j \in ps : i <= j
        <4> DEFINE f == [i \in ps |-> i]
        <4>1. f \in [ps -> Nat]
          OBVIOUS
        <4>2. PICK i \in ps : \A j \in ps : f[i] <= f[j]
          <5> HIDE DEF f
          <5> QED
            BY <4>1, <1>15, LeastValue
        <4> QED
          BY <4>2
      <3>2. \A j \in ps : ~(j < i)
        BY <3>1
      <3> QED
        BY <3>2 DEF O!Firsts, first
    <2>2. Cardinality(first) # 0
      BY <2>1, <1>3, FS_EmptySet
    <2>3. 1 \in DOMAIN out
      BY <2>2, <1>3, <1>11
    <2> QED
      BY <2>3
  <1> QED
    BY <1>12, <1>13, <1>14, <1>15 DEF Ordered

(* The first candidates of an ordered sequence are ordered. *)
LEMMA TakenCandidates ==
  ASSUME NEW s \in Seq(O!MX), Ordered(s), s # << >>, NEW n \in Nat \ {0}, NEW out, out = O!Take(s, n)
  PROVE  out \in Seq(O!MX) /\ Ordered(out) /\ out # << >>
  <1> DEFINE m == IF Len(s) < n THEN Len(s) ELSE n
  <1>1. m \in Nat /\ 1 <= m /\ m <= Len(s)
    OBVIOUS
  <1>2. out = SubSeq(s, 1, m)
    BY DEF O!Take
  <1> HIDE DEF m
  <1>3. out \in Seq(O!MX) /\ Len(out) = m /\ \A i \in 1..m : out[i] = s[i]
    BY <1>1, <1>2
  <1>4. DOMAIN out = 1..m /\ DOMAIN s = 1..Len(s)
    BY <1>3
  <1>5. \A i \in DOMAIN out : i \in DOMAIN s /\ out[i] = s[i]
    BY <1>1, <1>3, <1>4
  <1> QED
    BY <1>1, <1>3, <1>4, <1>5 DEF Ordered

(* orderCandidates moves candidates only among those of equal preference,    *)
(* and loses and repeats none.                                              *)
LEMMA ReorderedCandidates ==
  ASSUME O!OutboundSmtpAssumption,
         NEW s \in Seq(O!MX), Ordered(s), s # << >>, NEW out \in O!orderCandidates(s)
  PROVE  out \in Seq(O!MX) /\ Ordered(out) /\ out # << >>
  <1> DEFINE dom == 1..Len(s)
             mx == O!Range(s)
  <1>1. DOMAIN s = dom /\ Len(s) \in Nat /\ 1 \in dom
    OBVIOUS
  <1>2. mx \subseteq O!MX /\ (\A i \in dom : s[i] \in mx) /\ (\A x \in mx : \E i \in dom : s[i] = x)
    BY <1>1 DEF O!Range
  <1>3. out \in [dom -> mx] /\ (\A x \in mx : \E i \in dom : out[i] = x)
        /\ (\A i \in dom : out[i].pref = s[i].pref)
    BY <1>1 DEF O!orderCandidates, O!Range
  <1>4. s = [i \in dom |-> s[i]]
    BY <1>1
  <1> HIDE DEF mx, dom
  <1>5. s \in [dom -> mx]
    BY <1>2, <1>4
  <1>6. IsFiniteSet(dom)
    BY <1>1, FS_Interval DEF dom
  <1>7. ASSUME NEW i \in dom, NEW j \in dom, s[i] = s[j] PROVE i = j
    <2>1. i \in Nat /\ j \in Nat
      BY <1>1 DEF dom
    <2>2. ~(i < j) /\ ~(j < i)
      BY <1>1, <1>7 DEF Ordered
    <2> QED
      BY <2>1, <2>2
  <1>8. s \in Surjection(dom, mx) /\ s \in Injection(dom, mx)
    BY <1>2, <1>5, <1>7 DEF Surjection, Injection, IsInjective
  <1>9. Cardinality(mx) = Cardinality(dom)
    BY <1>6, <1>8, FS_Surjection
  <1>10. out \in Surjection(dom, mx)
    BY <1>3 DEF Surjection
  <1>11. out \in Injection(dom, mx)
    BY <1>6, <1>9, <1>10, FS_Surjection
  <1>12. \A i, j \in dom : i # j => out[i] # out[j]
    BY <1>3, <1>11 DEF Injection, IsInjective
  <1>13. DOMAIN out = dom /\ out = [i \in dom |-> out[i]] /\ \A i \in dom : out[i] \in O!MX
    BY <1>2, <1>3
  <1>14. out \in Seq(O!MX) /\ out # << >>
    <2>1. out \in Seq(O!MX)
      BY <1>1, <1>13 DEF dom
    <2> QED
      BY <2>1, <1>1, <1>13
  <1>15. ASSUME NEW i \in dom PROVE O!hostSafe(out[i].host)
    BY <1>1, <1>2, <1>3 DEF Ordered
  <1>16. ASSUME NEW i \in dom, NEW j \in dom, i < j PROVE out[i].pref <= out[j].pref /\ out[i] # out[j]
    <2>1. s[i].pref <= s[j].pref
      BY <1>1, <1>16 DEF Ordered
    <2>2. i # j
      BY <1>1, <1>16 DEF dom
    <2> QED
      BY <2>1, <2>2, <1>3, <1>12
  <1> QED
    BY <1>13, <1>14, <1>15, <1>16 DEF Ordered

(* One safe candidate is a sequence in order. *)
LEMMA OneCandidate ==
  ASSUME O!OutboundSmtpAssumption, NEW h, h = CHOOSE x \in Hosts : O!hostSafe(x),
         NEW s, s = <<[host |-> h, pref |-> 0]>>
  PROVE  s \in Seq(O!MX) /\ Ordered(s) /\ s # << >>
  <1>1. h \in Hosts /\ O!hostSafe(h) /\ 0 \in Prefs
    BY DEF O!OutboundSmtpAssumption
  <1>2. [host |-> h, pref |-> 0] \in O!MX
    BY <1>1 DEF O!MX
  <1>3. s \in Seq(O!MX) /\ Len(s) = 1 /\ DOMAIN s = {1} /\ s[1].host = h
    BY <1>2
  <1> QED
    BY <1>1, <1>3 DEF Ordered

(* What a lookup finds is never empty, and in order. *)
LEMMA FoundCandidates ==
  ASSUME O!OutboundSmtpAssumption, NEW n \in Nat, NEW records \in [1..n -> O!MX],
         NEW l \in O!LookupMX(records), l.kind = "found"
  PROVE  l.mx \in Seq(O!MX) /\ Ordered(l.mx) /\ l.mx # << >>
  <1> DEFINE safe == {i \in DOMAIN records : O!hostSafe(records[i].host)}
             own == CHOOSE h \in Hosts : O!hostSafe(h)
             sorted == O!sortAndDedup(records, safe)
  <1>1. \/ l = [kind |-> "found", mx |-> <<[host |-> own, pref |-> 0]>>]
        \/ safe # {} /\ l = [kind |-> "found", mx |-> O!Take(sorted, MaxCandidates)]
    <2>1. l \in O!implicitFallback(own)
          \/ l = O!Lookup("null_mx") \/ l = O!Lookup("resolver_failure")
          \/ (safe # {} /\ l = [kind |-> "found", mx |-> O!Take(sorted, MaxCandidates)])
      <3> HIDE DEF sorted
      <3>1. CASE records = << >>
        BY <3>1 DEF O!LookupMX
      <3>2. CASE records # << >> /\ Len(records) = 1 /\ O!isNullMXRecord(records[1])
        BY <3>2 DEF O!LookupMX
      <3>3. CASE records # << >> /\ ~(Len(records) = 1 /\ O!isNullMXRecord(records[1]))
        BY <3>3 DEF O!LookupMX, sorted
      <3> QED
        BY <3>1, <3>2, <3>3
    <2> HIDE DEF sorted, own, safe
    <2>2. O!Lookup("null_mx").kind # "found" /\ O!Lookup("resolver_failure").kind # "found"
          /\ O!Lookup("not_found").kind # "found" /\ O!Lookup("temporary").kind # "found"
      BY DEF O!Lookup
    <2> QED
      BY <2>1, <2>2 DEF O!implicitFallback
  <1>2. CASE l = [kind |-> "found", mx |-> <<[host |-> own, pref |-> 0]>>]
    <2>1. l.mx = <<[host |-> own, pref |-> 0]>>
      BY <1>2
    <2> QED
      BY <2>1, OneCandidate
  <1>3. CASE safe # {} /\ l = [kind |-> "found", mx |-> O!Take(sorted, MaxCandidates)]
    <2>1. l.mx = O!Take(sorted, MaxCandidates)
      BY <1>3
    <2>2. safe \in SUBSET (1..n) /\ \A i \in safe : O!hostSafe(records[i].host)
      OBVIOUS
    <2>3. MaxCandidates \in Nat \ {0}
      BY DEF O!OutboundSmtpAssumption
    <2> HIDE DEF safe
    <2>4. sorted \in Seq(O!MX) /\ Ordered(sorted) /\ sorted # << >>
      BY <2>2, <1>3, SortedCandidates
    <2> HIDE DEF sorted
    <2> QED
      BY <2>1, <2>3, <2>4, TakenCandidates
  <1> QED
    BY <1>1, <1>2, <1>3

Sessions == [tls: BOOLEAN, caps: SUBSET {"STARTTLS", "AUTH"}, rcpts: Nat]

(* Nothing of the order changes where neither sequence does. *)
LEMMA OrderStays ==
  ASSUME OperationInv, todo' = todo, oAttempts' = oAttempts
  PROVE  OrderOK'
  BY DEF OperationInv, OrderOK, Ordered

(* A stage that ends well before MAIL FROM, or after it. *)
LEMMA SessionGoesOn ==
  ASSUME OperationInv, UNCHANGED <<config, todo, oAttempts, canceled, wire, result>>,
         leaked' = FALSE, conn' \in Sessions,
         \/ oPc \in Early \ {"lookup", "next"} /\ oPc' \in Early \ {"lookup", "next"}
         \/ oPc \in Late /\ oPc' \in Late,
         oPc' \in {"ehlo_tls", "auth"} => conn'.tls = TRUE,
         oPc' \in {"authenticate", "mail_from"} /\ config.tls = "required" => conn'.tls = TRUE
  PROVE  OperationInv'
  <1>1. OperationTypes'
    BY DEF OperationInv, OperationTypes, Sessions, Early, Late
  <1>2. CandidatesLeft'
    BY DEF OperationInv, CandidatesLeft, Early, Late
  <1>3. TransportOK'
    BY DEF TransportOK
  <1>4. OfferOK'
    BY DEF OperationInv, OfferOK, Early, Late
  <1> QED
    BY <1>1, <1>2, <1>3, <1>4, OrderStays DEF OperationInv

(* Stages that the fallback policy leaves only for the end. *)
Offered == {"auth", "mail_from", "rcpt_to", "data", "message_transfer", "data_response"}

(* A session that fails: the next candidate before MAIL FROM, the end after. *)
LEMMA SessionFails ==
  ASSUME OperationInv, UNCHANGED <<config, todo, oAttempts, canceled>>, leaked' = FALSE,
         NEW stage, NEW temporary \in BOOLEAN, O!Fails(stage, temporary),
         oPc \in (Early \ {"lookup", "next"}) \cup Late,
         wire' = [mail |-> wire'.mail, took |-> wire'.took], \A x, y \in wire'.mail : x = y,
         stage \in Offered \/ (oPc \in Early /\ wire' = wire)
  PROVE  OperationInv'
  <1> DEFINE d == O!decideFallback(stage, temporary)
  <1>1. stage \in Offered => d # "tryNext"
    BY DEF Offered, O!decideFallback
  <1>2. conn' \in Sessions /\ conn'.tls = FALSE
    BY DEF O!Fails, O!NoConn, Sessions
  <1> HIDE DEF d
  <1>3. CASE d = "tryNext" /\ todo # << >>
    <2>1. oPc' = "next" /\ result' = result /\ oPc \in Early /\ wire' = wire
      BY <1>1, <1>3 DEF O!Fails, d
    <2>2. OperationTypes'
      BY <2>1, <1>2 DEF OperationInv, OperationTypes, Sessions, Early
    <2>3. CandidatesLeft'
      BY <2>1, <1>3 DEF CandidatesLeft
    <2>4. TransportOK'
      BY <2>1 DEF TransportOK
    <2>5. OfferOK'
      BY <2>1 DEF OperationInv, OfferOK, Early, Late
    <2> QED
      BY <2>2, <2>3, <2>4, <2>5, OrderStays DEF OperationInv
  <1>4. CASE ~(d = "tryNext" /\ todo # << >>)
    <2>1. oPc' = "done" /\ result' = IF canceled THEN O!finishContext ELSE O!classifyFinal(d)
      BY <1>4 DEF O!Fails, d
    <2>2. result' \in [kind: O!Kinds, temporary: BOOLEAN] /\ result'.kind # "accepted"
      BY <2>1 DEF O!finishContext, O!classifyFinal, O!Kinds
    <2>3. OperationTypes'
      BY <2>1, <2>2, <1>2 DEF OperationInv, OperationTypes, Sessions
    <2>4. CandidatesLeft'
      BY <2>1 DEF CandidatesLeft
    <2>5. TransportOK'
      BY <2>1 DEF TransportOK
    <2>6. OfferOK'
      BY <2>1, <2>2 DEF OfferOK, Early, Late
    <2> QED
      BY <2>3, <2>4, <2>5, <2>6, OrderStays DEF OperationInv
  <1> QED
    BY <1>3, <1>4

(* The same where nothing was sent since the last step. *)
LEMMA EarlySessionFails ==
  ASSUME OperationInv, UNCHANGED <<config, todo, oAttempts, canceled, wire, leaked>>,
         NEW stage, NEW temporary \in BOOLEAN, O!Fails(stage, temporary),
         oPc \in Early \ {"lookup", "next"}
  PROVE  OperationInv'
  <1>1. wire' = [mail |-> wire'.mail, took |-> wire'.took]
    BY DEF OperationInv, OperationTypes
  <1>2. wire'.mail = {} /\ leaked' = FALSE
    BY DEF OperationInv, OfferOK, TransportOK
  <1> QED
    BY <1>1, <1>2, SessionFails

(* And where the message was offered already. *)
LEMMA LateSessionFails ==
  ASSUME OperationInv, UNCHANGED <<config, todo, oAttempts, canceled, leaked>>,
         wire' = [mail |-> wire'.mail, took |-> wire'.took], wire'.mail = wire.mail,
         NEW stage \in Late, NEW temporary \in BOOLEAN, O!Fails(stage, temporary), oPc \in Late
  PROVE  OperationInv'
  <1>1. stage \in Offered
    BY DEF Late, Offered
  <1>2. (\A x, y \in wire'.mail : x = y) /\ leaked' = FALSE
    BY DEF OperationInv, OfferOK, TransportOK
  <1> QED
    BY <1>1, <1>2, SessionFails

(* A reply is temporary or not. *)
LEMMA TemporaryOrNot == \A reply : O!Temporary(reply) \in BOOLEAN
  BY DEF O!Temporary, O!replyError, O!deliveryErrorFromRead

LEMMA ResolveKeeps ==
  ASSUME O!OutboundSmtpAssumption, OperationInv, O!Resolve
  PROVE  OperationInv'
  <1>1. UNCHANGED <<config, conn, oAttempts, canceled, wire, leaked>> /\ oPc = "lookup" /\ oAttempts = << >>
    BY DEF OperationInv, CandidatesLeft, O!Resolve
  <1>2. leaked' = FALSE /\ wire.mail = {} /\ wire.took = {} /\ result.kind = "none"
    BY <1>1 DEF OperationInv, TransportOK, OfferOK, Early
  <1>3. ASSUME todo' \in Seq(O!MX), Ordered(todo'), todo' # << >>, oPc' = "next", result' = result
        PROVE  OperationInv'
    <2>1. OperationTypes'
      BY <1>1, <1>3 DEF OperationInv, OperationTypes, Early
    <2>2. CandidatesLeft'
      BY <1>3 DEF CandidatesLeft
    <2>3. TransportOK'
      BY <1>2, <1>3 DEF TransportOK
    <2>4. OfferOK'
      BY <1>1, <1>2, <1>3 DEF OfferOK, Early, Late
    <2>5. OrderOK'
      <3>1. Ordered(oAttempts')
        BY <1>1 DEF Ordered
      <3>2. DOMAIN oAttempts' = {}
        BY <1>1
      <3> QED
        BY <3>1, <3>2, <1>3 DEF OrderOK, Ordered
    <2> QED
      BY <2>1, <2>2, <2>3, <2>4, <2>5 DEF OperationInv
  <1>4. ASSUME NEW kind, result' = O!finishDNS(kind), oPc' = "done", todo' = todo
        PROVE  OperationInv'
    <2>1. result' \in [kind: O!Kinds, temporary: BOOLEAN] /\ result'.kind # "accepted"
      BY <1>4 DEF O!finishDNS, O!Kinds
    <2>2. OperationTypes'
      BY <2>1, <1>1, <1>4 DEF OperationInv, OperationTypes
    <2>3. CandidatesLeft'
      BY <1>4 DEF CandidatesLeft
    <2>4. TransportOK'
      BY <1>2, <1>4 DEF TransportOK
    <2>5. OfferOK'
      BY <2>1, <1>1, <1>2, <1>4 DEF OfferOK, Early, Late
    <2> QED
      BY <2>2, <2>3, <2>4, <2>5, <1>1, <1>4, OrderStays DEF OperationInv
  <1>5. CASE config.relay
    <2> DEFINE h == CHOOSE x \in Hosts : O!hostSafe(x)
    <2>1. todo' = <<[host |-> h, pref |-> 0]>> /\ oPc' = "next" /\ result' = result
      BY <1>5 DEF O!Resolve
    <2> HIDE DEF h
    <2>2. todo' \in Seq(O!MX) /\ Ordered(todo') /\ todo' # << >>
      BY <2>1, OneCandidate DEF h
    <2> QED
      BY <2>1, <2>2, <1>3
  <1>6. CASE ~config.relay
    <2>1. PICK n \in 0..MaxRecords : \E records \in [1..n -> O!MX] : \E l \in O!LookupMX(records) :
             IF l.kind = "found"
             THEN todo' \in O!orderCandidates(l.mx) /\ oPc' = "next" /\ result' = result
             ELSE result' = O!finishDNS(l.kind) /\ oPc' = "done" /\ todo' = todo
      BY <1>6 DEF O!Resolve
    <2>2. PICK records \in [1..n -> O!MX] : \E l \in O!LookupMX(records) :
             IF l.kind = "found"
             THEN todo' \in O!orderCandidates(l.mx) /\ oPc' = "next" /\ result' = result
             ELSE result' = O!finishDNS(l.kind) /\ oPc' = "done" /\ todo' = todo
      BY <2>1
    <2>3. PICK l \in O!LookupMX(records) :
             IF l.kind = "found"
             THEN todo' \in O!orderCandidates(l.mx) /\ oPc' = "next" /\ result' = result
             ELSE result' = O!finishDNS(l.kind) /\ oPc' = "done" /\ todo' = todo
      BY <2>2
    <2>4. n \in Nat
      BY DEF O!OutboundSmtpAssumption
    <2>5. CASE l.kind = "found"
      <3>1. l.mx \in Seq(O!MX) /\ Ordered(l.mx) /\ l.mx # << >>
        BY <2>4, <2>5, FoundCandidates
      <3>2. todo' \in O!orderCandidates(l.mx) /\ oPc' = "next" /\ result' = result
        BY <2>3, <2>5
      <3>3. todo' \in Seq(O!MX) /\ Ordered(todo') /\ todo' # << >>
        BY <3>1, <3>2, ReorderedCandidates
      <3> QED
        BY <3>2, <3>3, <1>3
    <2>6. CASE l.kind # "found"
      BY <2>3, <2>6, <1>4
    <2> QED
      BY <2>5, <2>6
  <1> QED
    BY <1>5, <1>6

LEMMA DeliverKeeps ==
  ASSUME OperationInv, O!Deliver
  PROVE  OperationInv'
  <1>1. UNCHANGED <<config, conn, canceled, wire, leaked>> /\ oPc = "next" /\ todo # << >>
    BY DEF OperationInv, CandidatesLeft, O!Deliver
  <1>2. leaked' = FALSE /\ wire.mail = {} /\ wire.took = {} /\ result.kind = "none"
    BY <1>1 DEF OperationInv, TransportOK, OfferOK, Early
  <1>3. todo \in Seq(O!MX) /\ oAttempts \in Seq(O!MX)
    BY DEF OperationInv, OperationTypes
  <1>4. CASE canceled
    <2>1. oPc' = "done" /\ result' = O!finishContext /\ todo' = todo /\ oAttempts' = oAttempts
      BY <1>4 DEF O!Deliver
    <2>2. result' \in [kind: O!Kinds, temporary: BOOLEAN] /\ result'.kind # "accepted"
      BY <2>1 DEF O!finishContext, O!Kinds
    <2>3. OperationTypes'
      BY <2>1, <2>2, <1>1 DEF OperationInv, OperationTypes
    <2>4. CandidatesLeft'
      BY <2>1 DEF CandidatesLeft
    <2>5. TransportOK'
      BY <2>1, <1>2 DEF TransportOK
    <2>6. OfferOK'
      BY <2>1, <2>2, <1>1, <1>2 DEF OfferOK, Early, Late
    <2> QED
      BY <2>1, <2>3, <2>4, <2>5, <2>6, OrderStays DEF OperationInv
  <1>5. CASE ~canceled
    <2>1. oPc' = "dial" /\ result' = result /\ oAttempts' = Append(oAttempts, Head(todo)) /\ todo' = Tail(todo)
      BY <1>5 DEF O!Deliver
    <2>2. Head(todo) = todo[1] /\ todo[1] \in O!MX /\ 1 \in DOMAIN todo
      BY <1>1, <1>3
    <2>3. todo' \in Seq(O!MX) /\ \A i \in DOMAIN todo' : i \in Nat /\ i + 1 \in DOMAIN todo /\ 1 < i + 1 /\ todo'[i] = todo[i + 1]
      BY <2>1, <1>1, <1>3
    <2>4. oAttempts' \in Seq(O!MX) /\ oAttempts' # << >> /\ Len(oAttempts') = Len(oAttempts) + 1
      BY <2>1, <2>2, <1>3
    <2>5. \A i \in DOMAIN oAttempts' : \/ i \in DOMAIN oAttempts /\ oAttempts'[i] = oAttempts[i]
                                       \/ i = Len(oAttempts) + 1 /\ oAttempts'[i] = todo[1]
      <3> SUFFICES ASSUME NEW i \in DOMAIN oAttempts'
                   PROVE  \/ i \in DOMAIN oAttempts /\ oAttempts'[i] = oAttempts[i]
                          \/ i = Len(oAttempts) + 1 /\ oAttempts'[i] = todo[1]
        OBVIOUS
      <3>1. Len(oAttempts) \in Nat /\ DOMAIN oAttempts = 1..Len(oAttempts) /\ i \in 1..(Len(oAttempts) + 1)
        BY <2>4, <1>3
      <3>2. CASE i = Len(oAttempts) + 1
        <4>1. Append(oAttempts, Head(todo))[Len(oAttempts) + 1] = Head(todo)
          BY <1>3
        <4> QED
          BY <3>2, <4>1, <2>1, <2>2
      <3>3. CASE i \in 1..Len(oAttempts)
        <4>1. Append(oAttempts, Head(todo))[i] = oAttempts[i]
          BY <3>1, <3>3, <1>3
        <4>2. oAttempts'[i] = oAttempts[i]
          BY <4>1, <2>1, Zenon
        <4>3. i \in DOMAIN oAttempts
          BY <3>1, <3>3, Zenon
        <4> QED
          BY <4>2, <4>3, Zenon
      <3> QED
        BY <3>1, <3>2, <3>3
    <2>6. \A i \in DOMAIN oAttempts : i \in Nat /\ i < Len(oAttempts) + 1
      BY <1>3
    <2>7. OperationTypes'
      BY <2>1, <2>3, <2>4, <1>1 DEF OperationInv, OperationTypes, Early
    <2>8. CandidatesLeft'
      BY <2>1, <2>4 DEF CandidatesLeft
    <2>9. TransportOK'
      BY <2>1, <1>2 DEF TransportOK
    <2>10. OfferOK'
      BY <2>1, <1>1, <1>2 DEF OfferOK, Early, Late
    <2>11. /\ Ordered(oAttempts) /\ Ordered(todo)
           /\ \A i \in DOMAIN oAttempts, j \in DOMAIN todo :
                oAttempts[i].pref <= todo[j].pref /\ oAttempts[i] # todo[j]
      BY DEF OperationInv, OrderOK
    <2>12. Ordered(oAttempts')
      <3> SUFFICES ASSUME NEW i \in DOMAIN oAttempts'
                   PROVE  /\ O!hostSafe(oAttempts'[i].host)
                          /\ \A j \in DOMAIN oAttempts' : i < j =>
                               oAttempts'[i].pref <= oAttempts'[j].pref /\ oAttempts'[i] # oAttempts'[j]
        BY DEF Ordered
      <3>1. O!hostSafe(oAttempts'[i].host)
        BY <2>2, <2>5, <2>11 DEF Ordered
      <3>2. ASSUME NEW j \in DOMAIN oAttempts', i < j
            PROVE  oAttempts'[i].pref <= oAttempts'[j].pref /\ oAttempts'[i] # oAttempts'[j]
        <4>1. i \in DOMAIN oAttempts /\ oAttempts'[i] = oAttempts[i]
          <5>1. Len(oAttempts) \in Nat
            BY <1>3
          <5> QED
            BY <2>5, <2>6, <3>2, <5>1
        <4>2. CASE j \in DOMAIN oAttempts /\ oAttempts'[j] = oAttempts[j]
          BY <4>1, <4>2, <3>2, <2>11 DEF Ordered
        <4>3. CASE oAttempts'[j] = todo[1]
          BY <4>1, <4>3, <2>2, <2>11
        <4> QED
          BY <4>2, <4>3, <2>5
      <3> QED
        BY <3>1, <3>2
    <2>13. Ordered(todo')
      <3> SUFFICES ASSUME NEW i \in DOMAIN todo'
                   PROVE  /\ O!hostSafe(todo'[i].host)
                          /\ \A j \in DOMAIN todo' : i < j => todo'[i].pref <= todo'[j].pref /\ todo'[i] # todo'[j]
        BY DEF Ordered
      <3>1. O!hostSafe(todo'[i].host)
        BY <2>3, <2>11 DEF Ordered
      <3>2. ASSUME NEW j \in DOMAIN todo', i < j PROVE todo'[i].pref <= todo'[j].pref /\ todo'[i] # todo'[j]
        <4>1. i + 1 < j + 1
          BY <2>3, <3>2
        <4> QED
          BY <4>1, <2>3, <2>11 DEF Ordered
      <3> QED
        BY <3>1, <3>2
    <2>14. ASSUME NEW i \in DOMAIN oAttempts', NEW j \in DOMAIN todo'
           PROVE  oAttempts'[i].pref <= todo'[j].pref /\ oAttempts'[i] # todo'[j]
      <3>1. CASE i \in DOMAIN oAttempts /\ oAttempts'[i] = oAttempts[i]
        BY <3>1, <2>3, <2>11
      <3>2. CASE oAttempts'[i] = todo[1]
        BY <3>2, <2>2, <2>3, <2>11 DEF Ordered
      <3> QED
        BY <3>1, <3>2, <2>5
    <2>15. OrderOK'
      BY <2>12, <2>13, <2>14 DEF OrderOK, Ordered
    <2> QED
      BY <2>7, <2>8, <2>9, <2>10, <2>15 DEF OperationInv
  <1> QED
    BY <1>4, <1>5

(* The dialogue up to the end of TLS and AUTH: nothing is sent that a        *)
(* listener may not see.                                                    *)
LEMMA HandshakesKeep ==
  ASSUME OperationInv, NEW reply \in O!Replies,
         \/ O!Send \/ O!Greeting(reply) \/ O!hello(reply) \/ O!secure \/ O!StartTLS(reply) \/ O!Handshake
         \/ O!EhloTLS(reply) \/ O!authenticate
  PROVE  OperationInv'
  <1> USE DEF O!Exchange
  <1>1. conn \in Sessions /\ conn = [tls |-> conn.tls, caps |-> conn.caps, rcpts |-> conn.rcpts] /\ leaked = FALSE
    BY DEF OperationInv, OperationTypes, TransportOK, Sessions
  <1>2. UNCHANGED <<config, todo, oAttempts, canceled, wire, leaked>>
    BY DEF O!Send, O!Greeting, O!hello, O!secure, O!StartTLS, O!Handshake, O!EhloTLS, O!authenticate
  <1>3. leaked' = FALSE
    BY <1>1, <1>2
  <1>4. oPc \in Early \ {"lookup", "next"}
    BY DEF Early, O!Send, O!Greeting, O!hello, O!secure, O!StartTLS, O!Handshake, O!EhloTLS, O!authenticate
  <1>5. ASSUME NEW stage, NEW temporary \in BOOLEAN, O!Fails(stage, temporary) PROVE OperationInv'
    BY <1>2, <1>4, <1>5, EarlySessionFails
  <1>6. ASSUME NEW stage, O!Rejected(stage, reply) PROVE OperationInv'
    BY <1>5, <1>6, TemporaryOrNot DEF O!Rejected
  <1>7. ASSUME NEW stage, O!tlsFail(stage) PROVE OperationInv'
    BY <1>5, <1>7 DEF O!tlsFail
  <1>8. ASSUME result' = result, conn' \in Sessions,
               oPc' \in {"greeting", "ehlo", "helo", "secure", "starttls", "tls_handshake"}
        PROVE  OperationInv'
    <2>1. oPc' \in Early \ {"lookup", "next"} /\ oPc' \notin {"ehlo_tls", "auth", "authenticate", "mail_from"}
      BY <1>8 DEF Early
    <2> QED
      BY <2>1, <1>2, <1>3, <1>4, <1>8, SessionGoesOn
  <1>9. ASSUME result' = result, conn' \in Sessions, conn'.tls = TRUE,
               oPc' \in {"ehlo_tls", "authenticate", "auth"}
        PROVE  OperationInv'
    <2>1. oPc' \in Early \ {"lookup", "next"}
      BY <1>9 DEF Early
    <2> QED
      BY <2>1, <1>2, <1>3, <1>4, <1>9, SessionGoesOn
  <1>10. ASSUME NEW caps \in O!parseCapabilities, conn' = [conn EXCEPT !.caps = caps]
         PROVE  conn' \in Sessions /\ conn'.tls = conn.tls
    <2>1. caps \in SUBSET {"STARTTLS", "AUTH"}
      BY DEF O!parseCapabilities
    <2> QED
      BY <2>1, <1>1, <1>10 DEF Sessions
  <1>11. CASE O!Send
    <2>1. CASE O!Fails("dial", FALSE)
      BY <2>1, <1>5
    <2>2. CASE oPc' = "greeting" /\ UNCHANGED <<conn, result>>
      BY <2>2, <1>1, <1>8
    <2> QED
      BY <2>1, <2>2, <1>11 DEF O!Send
  <1>12. CASE O!Greeting(reply)
    <2>1. CASE O!Rejected("greeting", reply)
      BY <2>1, <1>6
    <2>2. CASE oPc' = "ehlo" /\ UNCHANGED <<conn, result>>
      BY <2>2, <1>1, <1>8
    <2> QED
      BY <2>1, <2>2, <1>12 DEF O!Greeting
  <1>13. CASE O!hello(reply)
    <2>1. CASE O!Rejected("ehlo", reply) \/ O!Rejected("helo", reply)
      BY <2>1, <1>6
    <2>2. CASE oPc' \in {"secure", "helo"} /\ UNCHANGED <<conn, result>>
      BY <2>2, <1>1, <1>8
    <2>3. CASE oPc' = "secure" /\ result' = result
               /\ \E caps \in O!parseCapabilities : conn' = [conn EXCEPT !.caps = caps]
      BY <2>3, <1>8, <1>10
    <2> QED
      BY <2>1, <2>2, <2>3, <1>13 DEF O!hello
  <1>14. CASE O!secure
    <2>1. CASE O!tlsFail("starttls")
      BY <2>1, <1>7
    <2>2. CASE oPc' = "starttls" /\ UNCHANGED <<conn, result>>
      BY <2>2, <1>1, <1>8
    <2>3. CASE config.tls # "required" /\ oPc' = "authenticate" /\ UNCHANGED <<conn, result>>
      <3>1. conn' \in Sessions /\ oPc' \in Early \ {"lookup", "next"} /\ oPc' \notin {"ehlo_tls", "auth"}
        BY <2>3, <1>1 DEF Early
      <3> QED
        BY <2>3, <3>1, <1>2, <1>3, <1>4, SessionGoesOn
    <2> QED
      BY <2>1, <2>2, <2>3, <1>14 DEF O!secure
  <1>15. CASE O!StartTLS(reply)
    <2>1. CASE O!tlsFail("starttls")
      BY <2>1, <1>7
    <2>2. CASE oPc' = "tls_handshake" /\ conn' = [conn EXCEPT !.caps = {}] /\ result' = result
      <3>1. {} \in O!parseCapabilities
        BY DEF O!parseCapabilities
      <3> QED
        BY <2>2, <3>1, <1>8, <1>10
    <2> QED
      BY <2>1, <2>2, <1>15 DEF O!StartTLS
  <1>16. CASE O!Handshake
    <2>1. CASE O!tlsFail("tls_handshake")
      BY <2>1, <1>7
    <2>2. CASE conn' = [conn EXCEPT !.tls = TRUE] /\ oPc' = "ehlo_tls" /\ result' = result
      <3>1. conn' \in Sessions /\ conn'.tls = TRUE
        BY <2>2, <1>1 DEF Sessions
      <3> QED
        BY <2>2, <3>1, <1>9
    <2> QED
      BY <2>1, <2>2, <1>16 DEF O!Handshake
  <1>17. CASE O!EhloTLS(reply)
    <2>1. CASE O!tlsFail("ehlo_tls")
      BY <2>1, <1>7
    <2>2. CASE oPc' = "authenticate" /\ result' = result
               /\ \E caps \in O!parseCapabilities : conn' = [conn EXCEPT !.caps = caps]
      <3>1. conn.tls = TRUE
        BY <1>17 DEF OperationInv, TransportOK, O!EhloTLS
      <3>2. conn' \in Sessions /\ conn'.tls = TRUE
        BY <2>2, <3>1, <1>10
      <3> QED
        BY <2>2, <3>2, <1>9
    <2> QED
      BY <2>1, <2>2, <1>17 DEF O!EhloTLS
  <1>18. CASE O!authenticate
    <2>1. oPc = "authenticate"
      BY <1>18 DEF O!authenticate
    <2>2. CASE O!authFail(FALSE)
      BY <2>2, <1>5 DEF O!authFail
    <2>3. CASE oPc' = "mail_from" /\ UNCHANGED <<conn, result>>
      <3>1. config.tls = "required" => conn.tls = TRUE
        BY <2>1 DEF OperationInv, TransportOK
      <3>2. conn' \in Sessions /\ oPc' \in Early \ {"lookup", "next"} /\ oPc' \notin {"ehlo_tls", "auth"}
            /\ conn' = conn
        BY <2>3, <1>1 DEF Early
      <3> QED
        BY <2>3, <3>1, <3>2, <1>2, <1>3, <1>4, SessionGoesOn
    <2>4. CASE conn.tls /\ oPc' = "auth" /\ UNCHANGED <<conn, result>>
      <3>1. conn.tls \in BOOLEAN
        BY <1>1 DEF Sessions
      <3>2. conn' \in Sessions /\ conn'.tls = TRUE
        BY <2>4, <3>1, <1>1
      <3> QED
        BY <2>4, <3>2, <1>9
    <2> QED
      BY <2>2, <2>3, <2>4, <1>18 DEF O!authenticate
  <1> QED
    BY <1>11, <1>12, <1>13, <1>14, <1>15, <1>16, <1>17, <1>18

LEMMA AuthKeeps ==
  ASSUME OperationInv, NEW reply \in O!Replies, O!authFinish(reply)
  PROVE  OperationInv'
  <1>1. oPc = "auth" /\ UNCHANGED <<config, todo, oAttempts, canceled, wire>>
    BY DEF O!authFinish, O!Exchange
  <1>2. leaked = FALSE /\ conn.tls = TRUE /\ conn \in Sessions
    BY <1>1 DEF OperationInv, OperationTypes, TransportOK, Sessions
  <1>3. leaked' = FALSE
    <2>1. leaked' = (leaked \/ ~conn.tls)
      BY DEF O!authFinish
    <2> QED
      BY <2>1, <1>2, Zenon
  <1>4. oPc \in Early \ {"lookup", "next"}
    BY <1>1 DEF Early
  <1>5. CASE O!authFail(reply \in {"4xx", "lost"})
    <2>1. leaked' = leaked
      BY <1>2, <1>3
    <2>2. O!Fails("auth", TRUE)
      BY <1>5 DEF O!authFail, O!Fails, O!decideFallback
    <2> QED
      BY <2>1, <2>2, <1>1, <1>4, EarlySessionFails
  <1>6. CASE oPc' = "mail_from" /\ UNCHANGED <<conn, result>>
    <2>1. conn' \in Sessions /\ conn'.tls = TRUE /\ oPc' \in Early \ {"lookup", "next"} /\ oPc' \notin {"ehlo_tls", "auth"}
      BY <1>2, <1>6 DEF Early
    <2> QED
      BY <2>1, <1>1, <1>3, <1>4, <1>6, SessionGoesOn
  <1> QED
    BY <1>5, <1>6 DEF O!authFinish

LEMMA MailFromKeeps ==
  ASSUME OperationInv, NEW reply \in O!Replies, O!MailFrom(reply)
  PROVE  OperationInv'
  <1> DEFINE a == oAttempts[Len(oAttempts)]
  <1>1. oPc = "mail_from" /\ UNCHANGED <<config, todo, oAttempts, canceled>>
    BY DEF O!MailFrom, O!Exchange
  <1>2. wire.mail = {} /\ wire.took = {} /\ result.kind = "none" /\ wire = [mail |-> wire.mail, took |-> wire.took]
        /\ oAttempts # << >>
    BY <1>1 DEF OperationInv, OperationTypes, OfferOK, CandidatesLeft, Early
  <1>3. wire' = [mail |-> {a}, took |-> {}]
    BY <1>2 DEF O!MailFrom
  <1>4. leaked' = FALSE
    <2>1. leaked' = (leaked \/ (config.tls = "required" /\ ~conn.tls))
      BY DEF O!MailFrom
    <2>2. leaked = FALSE /\ (config.tls = "required" => conn.tls = TRUE)
      BY <1>1 DEF OperationInv, TransportOK
    <2> QED
      BY <2>1, <2>2, Zenon
  <1>5. CASE O!Rejected("mail_from", reply)
    <2>1. O!Fails("mail_from", O!Temporary(reply)) /\ O!Temporary(reply) \in BOOLEAN
      BY <1>5, TemporaryOrNot DEF O!Rejected
    <2>2. "mail_from" \in Offered /\ oPc \in (Early \ {"lookup", "next"}) \cup Late
      BY <1>1 DEF Offered, Early
    <2>3. wire' = [mail |-> wire'.mail, took |-> wire'.took] /\ \A x, y \in wire'.mail : x = y
      BY <1>3
    <2> QED
      BY <2>1, <2>2, <2>3, <1>1, <1>4, SessionFails
  <1>6. CASE oPc' = "rcpt_to" /\ UNCHANGED <<conn, result>>
    <2>1. OperationTypes'
      BY <1>1, <1>3, <1>6 DEF OperationInv, OperationTypes, Late
    <2>2. CandidatesLeft'
      BY <1>1, <1>2, <1>6 DEF CandidatesLeft
    <2>3. TransportOK'
      BY <1>4, <1>6 DEF TransportOK
    <2>4. OfferOK'
      BY <1>1, <1>2, <1>3, <1>6 DEF OfferOK, Early, Late
    <2> QED
      BY <2>1, <2>2, <2>3, <2>4, <1>1, OrderStays DEF OperationInv
  <1> QED
    BY <1>5, <1>6 DEF O!MailFrom

(* The dialogue after MAIL FROM up to the last reply. *)
LEMMA TransferKeeps ==
  ASSUME OperationInv, NEW reply \in O!Replies, O!RcptTo(reply) \/ O!Data(reply) \/ O!WriteMessage
  PROVE  OperationInv'
  <1>1. oPc \in Late /\ UNCHANGED <<config, todo, oAttempts, canceled, wire, leaked>>
    BY DEF O!RcptTo, O!Data, O!WriteMessage, O!Exchange, Late
  <1>2. leaked' = FALSE /\ conn \in Sessions /\ wire = [mail |-> wire.mail, took |-> wire.took]
    BY <1>1 DEF OperationInv, OperationTypes, TransportOK, Sessions
  <1>3. ASSUME NEW stage \in Late, NEW temporary \in BOOLEAN, O!Fails(stage, temporary) PROVE OperationInv'
    <2>1. wire' = [mail |-> wire'.mail, took |-> wire'.took] /\ wire'.mail = wire.mail
      BY <1>1, <1>2
    <2> QED
      BY <2>1, <1>1, <1>3, LateSessionFails
  <1>4. ASSUME conn' \in Sessions, result' = result, oPc' \in Late PROVE OperationInv'
    <2>1. oPc' \notin {"ehlo_tls", "auth", "authenticate", "mail_from"}
      BY <1>4 DEF Late
    <2> QED
      BY <2>1, <1>1, <1>2, <1>4, SessionGoesOn
  <1>5. CASE O!RcptTo(reply)
    <2>1. CASE O!Rejected("rcpt_to", reply)
      BY <2>1, <1>3, TemporaryOrNot DEF O!Rejected, Late
    <2>2. CASE reply = "ok" /\ conn' = [conn EXCEPT !.rcpts = @ + 1] /\ UNCHANGED result
               /\ oPc' = IF conn.rcpts + 1 = O!Cardinality(Rcpts) THEN "data" ELSE "rcpt_to"
      <3>1. oPc' \in Late
        BY <2>2 DEF Late
      <3>2. conn.rcpts \in Nat /\ conn.rcpts + 1 \in Nat
        BY <1>2 DEF Sessions
      <3>3. conn' \in Sessions
        BY <2>2, <3>2, <1>2 DEF Sessions
      <3> QED
        BY <2>2, <3>1, <3>3, <1>4
    <2> QED
      BY <2>1, <2>2, <1>5 DEF O!RcptTo
  <1>6. CASE O!Data(reply)
    <2>1. CASE O!Rejected("data", reply)
      BY <2>1, <1>3, TemporaryOrNot DEF O!Rejected, Late
    <2>2. CASE oPc' = "message_transfer" /\ UNCHANGED <<conn, result>>
      BY <2>2, <1>2, <1>4 DEF Late
    <2> QED
      BY <2>1, <2>2, <1>6 DEF O!Data
  <1>7. CASE O!WriteMessage
    <2>1. CASE O!Fails("message_transfer", FALSE)
      BY <2>1, <1>3 DEF Late
    <2>2. CASE oPc' = "data_response" /\ UNCHANGED <<conn, result>>
      BY <2>2, <1>2, <1>4 DEF Late
    <2> QED
      BY <2>1, <2>2, <1>7 DEF O!WriteMessage
  <1> QED
    BY <1>5, <1>6, <1>7

LEMMA DataResponseKeeps ==
  ASSUME OperationInv, NEW reply \in O!Replies, O!DataResponse(reply)
  PROVE  OperationInv'
  <1> DEFINE h == O!Host
  <1>1. oPc = "data_response" /\ oPc \in Late /\ UNCHANGED <<config, todo, oAttempts, canceled, leaked>>
    BY DEF O!DataResponse, O!Exchange, Late
  <1>2. /\ wire.mail = {oAttempts[Len(oAttempts)]} /\ wire.took = {} /\ result.kind = "none"
        /\ wire = [mail |-> wire.mail, took |-> wire.took] /\ oAttempts # << >> /\ leaked' = FALSE
    BY <1>1 DEF OperationInv, OperationTypes, OfferOK, CandidatesLeft, TransportOK
  <1> HIDE DEF h
  <1>3. [wire EXCEPT !.took = @ \cup {h}] = [mail |-> wire.mail, took |-> {h}]
    <2>1. PICK m : wire = [mail |-> m, took |-> {}]
      BY <1>2
    <2> QED
      BY <2>1
  <1>4. CASE O!Rejected("data_response", reply)
             /\ wire' \in {wire} \cup (IF reply = "lost" THEN {[wire EXCEPT !.took = @ \cup {h}]} ELSE {})
    <2>1. wire' = wire \/ wire' = [mail |-> wire.mail, took |-> {h}]
      BY <1>3, <1>4
    <2>2. wire' = [mail |-> wire'.mail, took |-> wire'.took] /\ wire'.mail = wire.mail
      BY <2>1, <1>2
    <2>3. O!Fails("data_response", O!Temporary(reply)) /\ O!Temporary(reply) \in BOOLEAN /\ "data_response" \in Late
      BY <1>4, TemporaryOrNot DEF O!Rejected, Late
    <2> QED
      BY <2>2, <2>3, <1>1, LateSessionFails
  <1>5. CASE /\ oPc' = "quit" /\ UNCHANGED conn /\ result' = [kind |-> "accepted", temporary |-> FALSE]
             /\ wire' = [wire EXCEPT !.took = @ \cup {h}]
    <2>1. wire' = [mail |-> wire.mail, took |-> {h}]
      BY <1>3, <1>5
    <2>2. OperationTypes'
      BY <2>1, <1>1, <1>5 DEF OperationInv, OperationTypes, O!Kinds
    <2>3. CandidatesLeft'
      BY <1>1, <1>2, <1>5 DEF CandidatesLeft
    <2>4. TransportOK'
      BY <1>2, <1>5 DEF TransportOK
    <2>5. OfferOK'
      BY <2>1, <1>2, <1>5 DEF OfferOK, Early, Late
    <2> QED
      BY <2>2, <2>3, <2>4, <2>5, <1>1, OrderStays DEF OperationInv
  <1> QED
    BY <1>4, <1>5 DEF O!DataResponse, h

LEMMA OperationEndsSoundly ==
  ASSUME OperationInv, NEW reply \in O!Replies, O!Quit(reply) \/ O!Cancel
  PROVE  OperationInv'
  <1>1. UNCHANGED <<config, todo, oAttempts, result, wire, leaked>>
    BY DEF O!Quit, O!Cancel
  <1>2. CASE O!Quit(reply)
    <2>1. oPc = "quit" /\ oPc' = "done" /\ conn' = O!NoConn /\ canceled' = canceled
      BY <1>2 DEF O!Quit, O!Exchange
    <2>2. conn' \in Sessions
      BY <2>1 DEF O!NoConn, Sessions
    <2>3. OperationTypes'
      BY <2>1, <2>2, <1>1 DEF OperationInv, OperationTypes, Sessions
    <2>4. CandidatesLeft'
      BY <2>1 DEF CandidatesLeft
    <2>5. TransportOK'
      BY <2>1, <1>1 DEF OperationInv, TransportOK
    <2>6. OfferOK'
      BY <2>1, <1>1 DEF OperationInv, OfferOK, Early, Late
    <2> QED
      BY <2>3, <2>4, <2>5, <2>6, <1>1, OrderStays DEF OperationInv
  <1>3. CASE O!Cancel
    <2>1. canceled' = TRUE /\ oPc' = oPc /\ conn' = conn
      BY <1>3 DEF O!Cancel
    <2>2. OperationTypes'
      BY <2>1, <1>1 DEF OperationInv, OperationTypes
    <2>3. CandidatesLeft'
      BY <2>1, <1>1 DEF OperationInv, CandidatesLeft
    <2>4. TransportOK'
      BY <2>1, <1>1 DEF OperationInv, TransportOK
    <2>5. OfferOK'
      BY <2>1, <1>1 DEF OperationInv, OfferOK
    <2> QED
      BY <2>2, <2>3, <2>4, <2>5, <1>1, OrderStays DEF OperationInv
  <1> QED
    BY <1>2, <1>3

LEMMA OperationStep ==
  ASSUME O!OutboundSmtpAssumption, OperationInv, [O!Next]_O!vars
  PROVE  OperationInv'
  <1>1. ASSUME NEW reply \in O!Replies, O!Greeting(reply) \/ O!hello(reply) \/ O!StartTLS(reply) \/ O!EhloTLS(reply)
                 \/ O!authFinish(reply) \/ O!MailFrom(reply) \/ O!RcptTo(reply) \/ O!Data(reply)
                 \/ O!DataResponse(reply) \/ O!Quit(reply)
        PROVE  OperationInv'
    BY <1>1, HandshakesKeep, AuthKeeps, MailFromKeeps, TransferKeeps, DataResponseKeeps, OperationEndsSoundly
  <1>2. "lost" \in O!Replies
    BY DEF O!Replies
  <1>3. CASE O!Resolve
    BY <1>3, ResolveKeeps
  <1>4. CASE O!Deliver
    BY <1>4, DeliverKeeps
  <1>5. CASE O!Send \/ O!secure \/ O!Handshake \/ O!authenticate
    BY <1>2, <1>5, HandshakesKeep
  <1>6. CASE O!WriteMessage
    BY <1>2, <1>6, TransferKeeps
  <1>7. CASE O!Cancel
    BY <1>2, <1>7, OperationEndsSoundly
  <1>8. CASE UNCHANGED O!vars
    <2>1. UNCHANGED <<config, oPc, todo, conn, oAttempts, result, canceled, wire, leaked>>
      BY <1>8 DEF O!vars
    <2> QED
      BY <2>1 DEF OperationInv, OperationTypes, CandidatesLeft, TransportOK, OfferOK, OrderOK, Ordered
  <1>9. CASE \E reply \in (IF canceled THEN {"lost"} ELSE O!Replies) :
               \/ O!Greeting(reply) \/ O!hello(reply) \/ O!StartTLS(reply) \/ O!EhloTLS(reply)
               \/ O!authFinish(reply) \/ O!MailFrom(reply) \/ O!RcptTo(reply) \/ O!Data(reply)
               \/ O!DataResponse(reply) \/ O!Quit(reply)
    BY <1>1, <1>2, <1>9
  <1> QED
    BY <1>3, <1>4, <1>5, <1>6, <1>7, <1>8, <1>9 DEF O!Next

(* Every operation starts at its lookup, with nothing on the wire. *)
LEMMA OperationStarts ==
  ASSUME O!Init
  PROVE  OperationInv
  <1>1. oPc = "lookup" /\ todo = << >> /\ oAttempts = << >> /\ result = O!Running /\ canceled = FALSE
        /\ wire = [mail |-> {}, took |-> {}] /\ leaked = FALSE /\ conn = O!NoConn
    BY DEF O!Init
  <1>2. config \in [relay: BOOLEAN, creds: BOOLEAN, tls: O!TLSPolicy]
    BY DEF O!Init
  <1>3. conn \in Sessions /\ result \in [kind: O!Kinds, temporary: BOOLEAN] /\ result.kind = "none"
    BY <1>1 DEF O!NoConn, O!Running, O!Kinds, Sessions
  <1>4. OperationTypes
    <2>1. wire = [mail |-> wire.mail, took |-> wire.took]
      BY <1>1
    <2>2. todo \in Seq(O!MX) /\ oAttempts \in Seq(O!MX)
      BY <1>1
    <2>3. canceled \in BOOLEAN /\ oPc \in Early
      BY <1>1 DEF Early
    <2> QED
      BY <2>1, <2>2, <2>3, <1>2, <1>3 DEF OperationTypes, Sessions
  <1>5. CandidatesLeft /\ TransportOK
    BY <1>1 DEF CandidatesLeft, TransportOK
  <1>6. OfferOK
    BY <1>1, <1>3 DEF OfferOK, Early, Late
  <1>7. OrderOK
    BY <1>1 DEF OrderOK, Ordered
  <1> QED
    BY <1>4, <1>5, <1>6, <1>7 DEF OperationInv

(* The invariant gives what an operation promises. *)
LEMMA OperationInvSuffices ==
  ASSUME OperationInv
  PROVE  OperationIsSound
  <1>1. O!TypeOK
    BY DEF OperationInv, OperationTypes, Early, Late, O!TypeOK, O!Stages
  <1>2. O!NothingInTheClear
    BY DEF OperationInv, TransportOK, O!NothingInTheClear
  <1>3. (\A x, y \in wire.mail : x = y) /\ (result.kind = "accepted" => \E h \in wire.took : wire.took = {h})
    BY DEF OperationInv, OperationTypes, OfferOK
  <1>4. O!OneServerIsOffered
    <2>1. Cardinality(wire.mail) <= 1
      <3>1. CASE wire.mail = {}
        BY <3>1, FS_EmptySet
      <3>2. CASE wire.mail # {}
        <4>1. PICK x \in wire.mail : wire.mail = {x}
          BY <3>2, <1>3
        <4> QED
          BY <4>1, FS_Singleton
      <3> QED
        BY <3>1, <3>2
    <2>2. ASSUME result.kind = "accepted" PROVE Cardinality(wire.took) = 1
      <3>1. PICK h \in wire.took : wire.took = {h}
        BY <2>2, <1>3
      <3> QED
        BY <3>1, FS_Singleton
    <2> QED
      BY <2>1, <2>2, CandidateCount DEF O!OneServerIsOffered
  <1>5. O!CandidatesInOrder
    BY DEF OperationInv, OrderOK, Ordered, O!CandidatesInOrder
  <1> QED
    BY <1>1, <1>2, <1>4, <1>5 DEF OperationIsSound, O!OperationIsSound

LEMMA OperationAlone ==
  ASSUME O!OutboundSmtpAssumption
  PROVE  O!Spec => []OperationIsSound
  <1>1. O!Init => OperationInv
    BY OperationStarts
  <1>2. OperationInv /\ [O!Next]_O!vars => OperationInv'
    BY OperationStep
  <1>3. OperationInv => OperationIsSound
    BY OperationInvSuffices
  <1> QED
    BY <1>1, <1>2, <1>3, PTL DEF O!Spec

-----------------------------------------------------------------------------
(* Admission.                                                               *)

LEMMA RequestCount == \A X : A!Cardinality(X) = Cardinality(X)
  BY DEF A!Cardinality, Cardinality

(* The credits of the requests, one unit each, so that a sum over the        *)
(* requests is the number of its units.                                     *)
Units(f, n) == {u \in Procs \X (1..n) : u[2] <= f[u[1]]}
UnitsOfOthers(f, n, p) == {u \in Procs \X (1..n) : u[1] # p /\ u[2] <= f[u[1]]}

(* A sum is one request's credit and that of the others. *)
LEMMA UnitsOfOne ==
  ASSUME IsFiniteSet(Procs), NEW n \in Nat, NEW p \in Procs, NEW f \in [Procs -> 0..n]
  PROVE  /\ Cardinality(Units(f, n)) \in Nat /\ Cardinality(UnitsOfOthers(f, n, p)) \in Nat
         /\ Cardinality(Units(f, n)) = Cardinality(UnitsOfOthers(f, n, p)) + f[p]
  <1> DEFINE Carrier == Procs \X (1..n)
             Own == {p} \X (1..f[p])
             Others == UnitsOfOthers(f, n, p)
  <1>1. IsFiniteSet(1..n) /\ IsFiniteSet(1..f[p]) /\ Cardinality(1..f[p]) = f[p]
    <2>1. 1 \in Int /\ n \in Int /\ f[p] \in Int /\ f[p] >= 0
      OBVIOUS
    <2> QED
      BY <2>1, FS_Interval
  <1>2. IsFiniteSet(Carrier)
    BY <1>1, FS_Product
  <1>3. Cardinality({p}) = 1 /\ IsFiniteSet({p})
    BY FS_Singleton
  <1>4. IsFiniteSet(Own) /\ Cardinality(Own) = f[p]
    <2>1. Cardinality(Own) = Cardinality({p}) * Cardinality(1..f[p]) /\ IsFiniteSet(Own)
      BY <1>1, <1>3, FS_Product
    <2> QED
      BY <2>1, <1>1, <1>3
  <1>5. Units(f, n) \subseteq Carrier /\ Others \subseteq Carrier
    BY DEF Units, UnitsOfOthers
  <1>6. IsFiniteSet(Units(f, n)) /\ IsFiniteSet(Others)
    BY <1>2, <1>5, FS_Subset
  <1>7. Units(f, n) = Others \cup Own /\ Others \cap Own = {}
    BY DEF Units, UnitsOfOthers
  <1>8. Cardinality(Others \cup Own) = Cardinality(Others) + Cardinality(Own) - Cardinality(Others \cap Own)
    <2> HIDE DEF Others, Own
    <2> QED
      BY <1>4, <1>6, FS_Union
  <1>9. Cardinality({}) = 0
    BY FS_EmptySet
  <1>10. Cardinality(Others) \in Nat /\ Cardinality(Units(f, n)) \in Nat
    BY <1>6, FS_CardinalityType
  <1>11. Cardinality(Units(f, n)) = Cardinality(Others) + f[p]
    <2> HIDE DEF Others, Own
    <2> QED
      BY <1>4, <1>7, <1>8, <1>9, <1>10
  <1> QED
    BY <1>10, <1>11

(* A change of one request's credit changes the sum by as much. *)
LEMMA UnitsChange ==
  ASSUME IsFiniteSet(Procs), NEW n \in Nat, NEW p \in Procs,
         NEW f \in [Procs -> 0..n], NEW g \in [Procs -> 0..n], \A q \in Procs \ {p} : g[q] = f[q]
  PROVE  /\ Cardinality(Units(f, n)) \in Nat /\ Cardinality(Units(g, n)) \in Nat
         /\ Cardinality(Units(g, n)) = Cardinality(Units(f, n)) + g[p] - f[p]
  <1>1. UnitsOfOthers(f, n, p) = UnitsOfOthers(g, n, p)
    BY DEF UnitsOfOthers
  <1> HIDE DEF Units, UnitsOfOthers
  <1>2. f[p] \in Int /\ g[p] \in Int
    OBVIOUS
  <1>3. Cardinality(Units(f, n)) \in Nat /\ Cardinality(UnitsOfOthers(f, n, p)) \in Nat /\ Cardinality(Units(f, n)) = Cardinality(UnitsOfOthers(f, n, p)) + f[p]
    BY UnitsOfOne
  <1>4. Cardinality(Units(g, n)) \in Nat /\ Cardinality(Units(g, n)) = Cardinality(UnitsOfOthers(g, n, p)) + g[p]
    BY UnitsOfOne
  <1> QED
    BY <1>1, <1>2, <1>3, <1>4

Stages == {"idle", "batch", "item", "daily", "queue", "outbox", "charge", "insert"}

(* A batch that was not paid for yet has items, and no request is idle with  *)
(* items left.                                                              *)
Requests ==
  {r \in [pc: Stages, left: 0..MaxBatchSize, cost: 0..MaxItemRecipients] :
     (r.pc = "batch" => r.left >= 1) /\ (r.pc = "idle" => r.left = 0)}

Payments == [tokens: Nat, items: Nat, rcpts: Nat, accepted: Nat]

AdmissionTypes ==
  /\ aNow \in Nat /\ tat \in [A!Buckets -> Nat] /\ level \in [A!Buckets -> Int]
  /\ aReq \in [Procs -> Requests] /\ paid \in Payments
  /\ daily \in Nat /\ queued \in Nat /\ pending \in 0..queued

(* A request past a check counts against the cap it was checked for. *)
At(f, S) == {p \in Procs : f[p].pc \in S}
Capped(n, f, S, cap) == n + Cardinality(At(f, S)) <= cap + Cardinality(Procs) - 1

CapsKept ==
  /\ Capped(daily, aReq, {"queue", "outbox", "charge", "insert"}, DailySends)
  /\ Capped(queued, aReq, {"outbox", "charge", "insert"}, TenantMaxQueuedMessages)
  /\ Capped(pending, aReq, {"charge", "insert"}, MaxPendingDispatch)

(* What a request may still work on for the tokens it paid, and the          *)
(* recipients it paid for and has not inserted.                             *)
CreditOf(r) == IF r.pc = "batch" THEN 1 ELSE r.left
OwedOf(r) == IF r.pc = "insert" THEN r.cost ELSE 0
Credit(f) == [p \in Procs |-> CreditOf(f[p])]
Owed(f) == [p \in Procs |-> OwedOf(f[p])]

PaymentsCover ==
  /\ paid.items + Cardinality(Units(Credit(aReq), MaxBatchSize)) <= paid.tokens
  /\ paid.accepted + Cardinality(Units(Owed(aReq), MaxItemRecipients)) <= paid.rcpts

AdmissionInv == AdmissionTypes /\ A!GcraIsATokenBucket /\ CapsKept /\ PaymentsCover

(* How the requests past a check change when one request moves. *)
OneMoved(f, g, p, S) ==
  /\ Cardinality(At(f, S)) \in Nat /\ Cardinality(At(g, S)) \in Nat
  /\ Cardinality(At(f, S)) <= Cardinality(Procs)
  /\ f[p].pc \notin S => Cardinality(At(f, S)) <= Cardinality(Procs) - 1
  /\ Cardinality(At(g, S)) <= Cardinality(At(f, S)) + 1
  /\ (g[p].pc \in S => f[p].pc \in S) => Cardinality(At(g, S)) <= Cardinality(At(f, S))
  /\ f[p].pc \in S /\ g[p].pc \notin S => Cardinality(At(g, S)) = Cardinality(At(f, S)) - 1

LEMMA AtChange ==
  ASSUME IsFiniteSet(Procs), NEW f, NEW g, NEW p \in Procs, \A q \in Procs \ {p} : g[q] = f[q], NEW S
  PROVE  OneMoved(f, g, p, S)
  <1> DEFINE F0 == At(f, S)
             G0 == At(g, S)
  <1>1. F0 \subseteq Procs /\ G0 \subseteq Procs
    BY DEF At
  <1>2. /\ (g[p].pc \in S /\ f[p].pc \in S) \/ (g[p].pc \notin S /\ f[p].pc \notin S) => G0 = F0
        /\ g[p].pc \in S /\ f[p].pc \notin S => G0 = F0 \cup {p} /\ p \notin F0
        /\ g[p].pc \notin S /\ f[p].pc \in S => G0 = F0 \ {p} /\ p \in F0
        /\ f[p].pc \notin S => p \notin F0
    BY DEF At
  <1> HIDE DEF F0, G0
  <1>3. IsFiniteSet(F0) /\ IsFiniteSet(G0) /\ Cardinality(F0) <= Cardinality(Procs)
    BY <1>1, FS_Subset
  <1>4. Cardinality(F0) \in Nat /\ Cardinality(G0) \in Nat /\ Cardinality(Procs) \in Nat
    BY <1>3, FS_CardinalityType
  <1>5. ASSUME p \notin F0 PROVE Cardinality(F0) <= Cardinality(Procs) - 1
    <2>1. F0 # Procs
      BY <1>5
    <2>2. Cardinality(F0) # Cardinality(Procs)
      BY <2>1, <1>1, FS_Subset
    <2> QED
      BY <2>2, <1>3, <1>4
  <1>6. Cardinality(F0 \cup {p}) = IF p \in F0 THEN Cardinality(F0) ELSE Cardinality(F0) + 1
    BY <1>3, FS_AddElement
  <1>7. Cardinality(F0 \ {p}) = IF p \in F0 THEN Cardinality(F0) - 1 ELSE Cardinality(F0)
    BY <1>3, FS_RemoveElement
  <1>8. /\ Cardinality(G0) <= Cardinality(F0) + 1
        /\ (g[p].pc \in S => f[p].pc \in S) => Cardinality(G0) <= Cardinality(F0)
        /\ f[p].pc \in S /\ g[p].pc \notin S => Cardinality(G0) = Cardinality(F0) - 1
    <2>1. CASE G0 = F0 /\ ((g[p].pc \in S /\ f[p].pc \in S) \/ (g[p].pc \notin S /\ f[p].pc \notin S))
      <3>1. Cardinality(G0) = Cardinality(F0)
        BY <2>1
      <3>2. Cardinality(G0) <= Cardinality(F0) + 1 /\ Cardinality(G0) <= Cardinality(F0)
        BY <3>1, <1>4
      <3> QED
        BY <2>1, <3>2
    <2>2. CASE g[p].pc \in S /\ f[p].pc \notin S /\ G0 = F0 \cup {p} /\ p \notin F0
      <3>1. Cardinality(G0) = Cardinality(F0) + 1
        BY <2>2, <1>6
      <3>2. Cardinality(G0) <= Cardinality(F0) + 1
        BY <3>1, <1>4
      <3> QED
        BY <2>2, <3>2
    <2>3. CASE g[p].pc \notin S /\ f[p].pc \in S /\ G0 = F0 \ {p} /\ p \in F0
      <3>1. Cardinality(G0) = Cardinality(F0) - 1
        BY <2>3, <1>7
      <3>2. Cardinality(G0) <= Cardinality(F0) + 1 /\ Cardinality(G0) <= Cardinality(F0)
        BY <3>1, <1>4
      <3> QED
        BY <2>3, <3>1, <3>2
    <2> QED
      BY <2>1, <2>2, <2>3, <1>2
  <1>9. f[p].pc \notin S => Cardinality(F0) <= Cardinality(Procs) - 1
    BY <1>2, <1>5
  <1> QED
    BY <1>3, <1>4, <1>8, <1>9 DEF F0, G0, OneMoved

CapStep(n, m, lim, from_, to_, S) ==
  \/ m <= n /\ (to_ \in S => from_ \in S)
  \/ m = n /\ n < lim /\ from_ \notin S
  \/ m = n + 1 /\ from_ \in S /\ to_ \notin S

(* A cap is kept by a step that lets no further request past its check, by   *)
(* a check that passes, and by an insert that a passed check stands for.    *)
LEMMA CapKept ==
  ASSUME IsFiniteSet(Procs), NEW f, NEW g, NEW p \in Procs, \A q \in Procs \ {p} : g[q] = f[q], NEW S,
         NEW n \in Nat, NEW m \in Nat, NEW lim \in Nat, Capped(n, f, S, lim),
         CapStep(n, m, lim, f[p].pc, g[p].pc, S)
  PROVE  Capped(m, g, S, lim)
  <1>1. Cardinality(Procs) \in Nat
    BY FS_CardinalityType
  <1>2. /\ Cardinality(At(f, S)) \in Nat /\ Cardinality(At(g, S)) \in Nat
        /\ Cardinality(At(f, S)) <= Cardinality(Procs)
        /\ f[p].pc \notin S => Cardinality(At(f, S)) <= Cardinality(Procs) - 1
        /\ Cardinality(At(g, S)) <= Cardinality(At(f, S)) + 1
        /\ (g[p].pc \in S => f[p].pc \in S) => Cardinality(At(g, S)) <= Cardinality(At(f, S))
        /\ f[p].pc \in S /\ g[p].pc \notin S => Cardinality(At(g, S)) = Cardinality(At(f, S)) - 1
    BY AtChange DEF OneMoved
  <1> DEFINE a == Cardinality(At(f, S))
             b == Cardinality(At(g, S))
  <1>3. a \in Nat /\ b \in Nat /\ n + a <= lim + Cardinality(Procs) - 1
    BY <1>2 DEF Capped
  <1>4. \/ m <= n /\ b <= a
        \/ m = n /\ n < lim /\ a <= Cardinality(Procs) - 1 /\ b <= a + 1
        \/ m = n + 1 /\ b = a - 1
    <2>1. CASE m <= n /\ (g[p].pc \in S => f[p].pc \in S)
      BY <2>1, <1>2, Zenon
    <2>2. CASE m = n /\ n < lim /\ f[p].pc \notin S
      BY <2>2, <1>2, Zenon
    <2>3. CASE m = n + 1 /\ f[p].pc \in S /\ g[p].pc \notin S
      BY <2>3, <1>2, Zenon
    <2> QED
      BY <2>1, <2>2, <2>3, Zenon DEF CapStep
  <1>5. m + b <= lim + Cardinality(Procs) - 1
    <2> HIDE DEF a, b
    <2> QED
      BY <1>1, <1>3, <1>4
  <1> QED
    BY <1>5 DEF Capped

(* The payments go on to cover the work if a step spends no more of one      *)
(* request's credit than it pays.                                           *)
LEMMA PaymentsKept ==
  ASSUME A!AdmissionAssumption, AdmissionTypes, PaymentsCover, NEW p \in Procs, NEW r \in Requests,
         aReq' = [aReq EXCEPT ![p] = r], paid' \in Payments,
         paid'.items + CreditOf(r) + paid.tokens <= paid.items + CreditOf(aReq[p]) + paid'.tokens,
         paid'.accepted + OwedOf(r) + paid.rcpts <= paid.accepted + OwedOf(aReq[p]) + paid'.rcpts
  PROVE  PaymentsCover'
  <1>1. MaxBatchSize \in Nat /\ MaxItemRecipients \in Nat /\ IsFiniteSet(Procs)
    BY RequestCount DEF A!AdmissionAssumption, A!IsFiniteSet, IsFiniteSet
  <1>2. \A x \in Requests : CreditOf(x) \in 0..MaxBatchSize /\ OwedOf(x) \in 0..MaxItemRecipients
    BY <1>1 DEF Requests, CreditOf, OwedOf
  <1>3. aReq \in [Procs -> Requests] /\ aReq' \in [Procs -> Requests] /\ aReq'[p] = r /\ (\A q \in Procs \ {p} : aReq'[q] = aReq[q])
    BY DEF AdmissionTypes
  <1>4. /\ Credit(aReq) \in [Procs -> 0..MaxBatchSize] /\ Credit(aReq') \in [Procs -> 0..MaxBatchSize]
        /\ Credit(aReq)[p] = CreditOf(aReq[p]) /\ Credit(aReq')[p] = CreditOf(r)
        /\ \A q \in Procs \ {p} : Credit(aReq')[q] = Credit(aReq)[q]
    BY <1>2, <1>3 DEF Credit
  <1>5. /\ Owed(aReq) \in [Procs -> 0..MaxItemRecipients] /\ Owed(aReq') \in [Procs -> 0..MaxItemRecipients]
        /\ Owed(aReq)[p] = OwedOf(aReq[p]) /\ Owed(aReq')[p] = OwedOf(r)
        /\ \A q \in Procs \ {p} : Owed(aReq')[q] = Owed(aReq)[q]
    BY <1>2, <1>3 DEF Owed
  <1>6. PICK c, d : c = Credit(aReq) /\ d = Credit(aReq')
    OBVIOUS
  <1>7. PICK u, v : u = Owed(aReq) /\ v = Owed(aReq')
    OBVIOUS
  <1>8. /\ Cardinality(Units(c, MaxBatchSize)) \in Nat /\ Cardinality(Units(d, MaxBatchSize)) \in Nat
        /\ Cardinality(Units(d, MaxBatchSize)) = Cardinality(Units(c, MaxBatchSize)) + d[p] - c[p]
    BY <1>1, <1>4, <1>6, UnitsChange
  <1>9. /\ Cardinality(Units(u, MaxItemRecipients)) \in Nat /\ Cardinality(Units(v, MaxItemRecipients)) \in Nat
        /\ Cardinality(Units(v, MaxItemRecipients)) = Cardinality(Units(u, MaxItemRecipients)) + v[p] - u[p]
    BY <1>1, <1>5, <1>7, UnitsChange
  <1>10. PICK k, l, m, n \in Nat : k = Cardinality(Units(c, MaxBatchSize)) /\ l = Cardinality(Units(d, MaxBatchSize))
                         /\ m = Cardinality(Units(u, MaxItemRecipients)) /\ n = Cardinality(Units(v, MaxItemRecipients))
    BY <1>8, <1>9
  <1>11. paid \in Payments /\ aReq[p] \in Requests
    BY DEF AdmissionTypes
  <1>12. paid.items + k <= paid.tokens /\ paid.accepted + m <= paid.rcpts
    BY <1>6, <1>7, <1>10 DEF PaymentsCover
  <1>13. l = k + CreditOf(r) - CreditOf(aReq[p]) /\ n = m + OwedOf(r) - OwedOf(aReq[p])
    BY <1>4, <1>5, <1>6, <1>7, <1>8, <1>9, <1>10
  <1>14. CreditOf(r) \in Nat /\ CreditOf(aReq[p]) \in Nat /\ OwedOf(r) \in Nat /\ OwedOf(aReq[p]) \in Nat
    BY <1>2, <1>11
  <1>15. paid'.items + l <= paid'.tokens /\ paid'.accepted + n <= paid'.rcpts
    BY <1>11, <1>12, <1>13, <1>14 DEF Payments
  <1> QED
    BY <1>6, <1>7, <1>10, <1>15 DEF PaymentsCover
(* What the buckets keep: an arrival time for every level. *)
BucketsOK == tat \in [A!Buckets -> Nat] /\ level \in [A!Buckets -> Int] /\ A!GcraIsATokenBucket

LEMMA WindowType ==
  ASSUME A!AdmissionAssumption
  PROVE  \A b \in A!Buckets : A!Window(b) \in Nat /\ \A n \in Nat : Interval[b] * n \in Nat
  BY DEF A!AdmissionAssumption, A!Window

(* A charge that is allowed leaves the buckets token buckets. *)
LEMMA CommitKeeps ==
  ASSUME A!AdmissionAssumption, aNow \in Nat, BucketsOK, aNow' = aNow,
         NEW taken \in SUBSET A!Buckets, NEW charge \in [taken -> Nat], A!Allow(charge)
  PROVE  BucketsOK'
  <1>1. DOMAIN charge = taken
    OBVIOUS
  <1>2. tat' = [b \in A!Buckets |-> IF b \in taken THEN A!NewTat(b, charge[b], aNow) ELSE tat[b]]
    BY <1>1 DEF A!Allow, A!gcraCommit
  <1>3. level' = [b \in A!Buckets |-> IF b \in taken THEN level[b] - Interval[b] * charge[b] ELSE level[b]]
    BY <1>1 DEF A!Allow, A!gcraCommit
  <1>4. \A b \in taken : ~(aNow < A!NewTat(b, charge[b], aNow) - A!Window(b))
    BY <1>1 DEF A!Allow, A!gcraAllows, A!Refuses
  <1>5. ASSUME NEW b \in A!Buckets
        PROVE  /\ tat'[b] \in Nat /\ level'[b] \in Int /\ level'[b] >= 0
               /\ level'[b] = A!Window(b) - ((IF tat'[b] < aNow THEN aNow ELSE tat'[b]) - aNow)
    <2>1. PICK w \in Nat : w = A!Window(b)
      BY WindowType
    <2>2. PICK t \in Nat : t = tat[b]
      BY DEF BucketsOK
    <2>3. PICK x \in Int : x = level[b]
      BY DEF BucketsOK
    <2>4. x = w - ((IF t < aNow THEN aNow ELSE t) - aNow) /\ x >= 0
      BY <2>1, <2>2, <2>3 DEF BucketsOK, A!GcraIsATokenBucket, A!Tat
    <2>5. CASE b \in taken
      <3>1. PICK d \in Nat : d = Interval[b] * charge[b]
        BY <2>5, WindowType
      <3>2. A!NewTat(b, charge[b], aNow) = (IF t < aNow THEN aNow ELSE t) + d
        BY <3>1, <2>2 DEF A!NewTat, A!Tat
      <3>3. tat'[b] = (IF t < aNow THEN aNow ELSE t) + d /\ level'[b] = x - d
        BY <1>2, <1>3, <2>3, <2>5, <3>1, <3>2
      <3>4. ~(aNow < ((IF t < aNow THEN aNow ELSE t) + d) - w)
        BY <1>4, <2>5, <3>2, <2>1
      <3> QED
        BY <2>1, <2>4, <3>3, <3>4
    <2>6. CASE b \notin taken
      <3>1. tat'[b] = t /\ level'[b] = x
        BY <1>2, <1>3, <2>2, <2>3, <2>6
      <3> QED
        BY <3>1, <2>1, <2>4
    <2> QED
      BY <2>5, <2>6
  <1>6. tat' \in [A!Buckets -> Nat] /\ level' \in [A!Buckets -> Int]
    BY <1>2, <1>3, <1>5
  <1>7. A!GcraIsATokenBucket'
    BY <1>5 DEF A!GcraIsATokenBucket, A!Tat
  <1> QED
    BY <1>6, <1>7 DEF BucketsOK

(* Time refills them, and a key that expires stood for a full one. *)
LEMMA TimeKeepsBuckets ==
  ASSUME A!AdmissionAssumption, aNow \in Nat, BucketsOK, A!Tick \/ \E b \in A!Buckets : A!KeyExpires(b)
  PROVE  BucketsOK' /\ aNow' \in Nat
  <1>1. CASE A!Tick
    <2>1. aNow' = aNow + 1 /\ tat' = tat
          /\ level' = [b \in A!Buckets |-> A!Min({A!Window(b), level[b] + 1})]
      BY <1>1 DEF A!Tick
    <2>2. ASSUME NEW b \in A!Buckets
          PROVE  /\ level'[b] \in Int /\ level'[b] >= 0
                 /\ level'[b] = A!Window(b) - ((IF tat[b] < aNow + 1 THEN aNow + 1 ELSE tat[b]) - (aNow + 1))
      <3>1. PICK w \in Nat : w = A!Window(b)
        BY WindowType
      <3>2. PICK t \in Nat : t = tat[b]
        BY DEF BucketsOK
      <3>3. PICK x \in Int : x = level[b]
        BY DEF BucketsOK
      <3>4. x = w - ((IF t < aNow THEN aNow ELSE t) - aNow) /\ x >= 0
        BY <3>1, <3>2, <3>3 DEF BucketsOK, A!GcraIsATokenBucket, A!Tat
      <3>5. A!Min({w, x + 1}) = IF x + 1 <= w THEN x + 1 ELSE w
        BY DEF A!Min
      <3>6. level'[b] = IF x + 1 <= w THEN x + 1 ELSE w
        BY <2>1, <3>1, <3>3, <3>5
      <3> QED
        BY <3>1, <3>2, <3>4, <3>6
    <2>3. level' \in [A!Buckets -> Int]
      BY <2>1, <2>2
    <2>4. A!GcraIsATokenBucket'
      BY <2>1, <2>2 DEF A!GcraIsATokenBucket, A!Tat
    <2> QED
      BY <2>1, <2>3, <2>4 DEF BucketsOK
  <1>2. CASE \E b \in A!Buckets : A!KeyExpires(b)
    <2>1. PICK k \in A!Buckets : A!KeyExpires(k)
      BY <1>2
    <2>2. tat[k] < aNow /\ tat' = [tat EXCEPT ![k] = 0] /\ aNow' = aNow /\ level' = level
      BY <2>1 DEF A!KeyExpires
    <2>3. tat' \in [A!Buckets -> Nat]
      BY <2>2 DEF BucketsOK
    <2>4. \A b \in A!Buckets : (IF tat'[b] < aNow THEN aNow ELSE tat'[b]) = (IF tat[b] < aNow THEN aNow ELSE tat[b])
      BY <2>2 DEF BucketsOK
    <2>5. A!GcraIsATokenBucket'
      BY <2>2, <2>4 DEF BucketsOK, A!GcraIsATokenBucket, A!Tat
    <2> QED
      BY <2>2, <2>3, <2>5 DEF BucketsOK
  <1> QED
    BY <1>1, <1>2
(* A bucket of window w that a charge of d fits refuses it until the wait is  *)
(* over, and not longer.                                                    *)
LEMMA WaitIsExact ==
  ASSUME NEW moment \in Nat, NEW t \in Nat, NEW d \in Nat, NEW w \in Nat, d <= w, NEW x \in Int,
         x = (IF t < moment THEN moment ELSE t) + d - w - moment
  PROVE  /\ \A r \in Nat : x <= r => ~(moment + r < (IF t < moment + r THEN moment + r ELSE t) + d - w)
         /\ x > 0 => moment + x - 1 < (IF t < moment + x - 1 THEN moment + x - 1 ELSE t) + d - w
         /\ moment < (IF t < moment THEN moment ELSE t) + d - w <=> x > 0
  <1>1. ASSUME NEW r \in Nat, x <= r PROVE ~(moment + r < (IF t < moment + r THEN moment + r ELSE t) + d - w)
    BY <1>1
  <1>2. x > 0 => moment + x - 1 < (IF t < moment + x - 1 THEN moment + x - 1 ELSE t) + d - w
    OBVIOUS
  <1>3. moment < (IF t < moment THEN moment ELSE t) + d - w <=> x > 0
    OBVIOUS
  <1> QED
    BY <1>1, <1>2, <1>3

LEMMA RetryIsExact ==
  ASSUME A!AdmissionAssumption, aNow \in Nat, BucketsOK
  PROVE  A!RetryAfterIsExact
  <1> SUFFICES ASSUME NEW n \in 1..MaxBatchSize,
                      ~A!Impossible(A!RequestCharge(n)), ~A!gcraAllows(A!RequestCharge(n), aNow)
               PROVE  /\ A!gcraAllows(A!RequestCharge(n), aNow + A!RetryAfter(A!RequestCharge(n)))
                      /\ ~A!gcraAllows(A!RequestCharge(n), aNow + A!RetryAfter(A!RequestCharge(n)) - 1)
    BY DEF A!RetryAfterIsExact
  <1>1. n \in Nat
    BY DEF A!AdmissionAssumption
  <1> DEFINE both == {"tenant", "key"}
             d(b) == Interval[b] * n
             x(b) == (IF tat[b] < aNow THEN aNow ELSE tat[b]) + d(b) - A!Window(b) - aNow
  <1>2. DOMAIN A!RequestCharge(n) = both /\ \A b \in both : A!RequestCharge(n)[b] = n
    BY DEF A!RequestCharge
  <1>3. \A b \in both : /\ tat[b] \in Nat /\ d(b) \in Nat /\ A!Window(b) \in Nat /\ x(b) \in Int
    <2> SUFFICES ASSUME NEW b \in both PROVE tat[b] \in Nat /\ d(b) \in Nat /\ A!Window(b) \in Nat /\ x(b) \in Int
      OBVIOUS
    <2>1. b \in A!Buckets
      BY DEF A!Buckets
    <2>2. tat[b] \in Nat
      BY <2>1 DEF BucketsOK
    <2>3. d(b) \in Nat /\ A!Window(b) \in Nat
      BY <1>1, <2>1, WindowType
    <2> HIDE DEF d
    <2> QED
      BY <2>2, <2>3
  <1>4. \A b \in both : d(b) <= A!Window(b)
    BY <1>2, <1>3 DEF A!Impossible
  <1>5. ASSUME NEW b \in both
        PROVE  /\ \A r \in Nat : x(b) <= r => ~A!Refuses(b, n, aNow + r)
               /\ x(b) > 0 => A!Refuses(b, n, aNow + x(b) - 1)
               /\ A!Refuses(b, n, aNow) => x(b) > 0
    <2>1. PICK t \in Nat : t = tat[b]
      BY <1>3
    <2>2. PICK e \in Nat : e = Interval[b] * n
      BY <1>3
    <2>3. PICK w \in Nat : w = A!Window(b)
      BY <1>3
    <2>4. PICK y \in Int : y = x(b)
      BY <1>3
    <2>5. e <= w /\ y = (IF t < aNow THEN aNow ELSE t) + e - w - aNow
      BY <1>4, <2>1, <2>2, <2>3, <2>4
    <2>6. /\ \A r \in Nat : y <= r => ~(aNow + r < (IF t < aNow + r THEN aNow + r ELSE t) + e - w)
          /\ y > 0 => aNow + y - 1 < (IF t < aNow + y - 1 THEN aNow + y - 1 ELSE t) + e - w
          /\ aNow < (IF t < aNow THEN aNow ELSE t) + e - w <=> y > 0
      BY <2>5, WaitIsExact
    <2>7. \A s \in Int : A!Refuses(b, n, s) <=> s < (IF t < s THEN s ELSE t) + e - w
      BY <2>1, <2>2, <2>3 DEF A!Refuses, A!NewTat, A!Tat
    <2> HIDE DEF x, d
    <2> QED
      BY <2>4, <2>6, <2>7
  <1>6. \A s : A!gcraAllows(A!RequestCharge(n), s) <=> \A b \in both : ~A!Refuses(b, n, s)
    BY <1>2 DEF A!gcraAllows
  <1>7. A!RetryAfter(A!RequestCharge(n)) = A!Max({0, x("tenant"), x("key")})
    <2>1. \A b \in both : A!NewTat(b, A!RequestCharge(n)[b], aNow) - A!Window(b) - aNow = x(b)
      <3>1. \A b \in both : A!NewTat(b, n, aNow) - A!Window(b) - aNow = x(b)
        BY <1>3 DEF A!NewTat, A!Tat
      <3> HIDE DEF x
      <3> QED
        BY <1>2, <3>1
    <2>2. {0} \cup {A!NewTat(b, A!RequestCharge(n)[b], aNow) - A!Window(b) - aNow : b \in DOMAIN A!RequestCharge(n)}
            = {0, x("tenant"), x("key")}
      <3> HIDE DEF x
      <3> QED
        BY <1>2, <2>1
    <2> QED
      BY <2>2 DEF A!RetryAfter
  <1>8. PICK y, z \in Int : y = x("tenant") /\ z = x("key")
    BY <1>3
  <1> HIDE DEF x, d
  <1>9. y > 0 \/ z > 0
    BY <1>5, <1>6, <1>8
  <1>10. A!Max({0, y, z}) = IF y >= z THEN y ELSE z
    <2>1. \E m \in {0, y, z} : \A k \in {0, y, z} : m >= k
      <3>1. CASE y >= z
        BY <3>1, <1>9
      <3>2. CASE z > y
        BY <3>2, <1>9
      <3> QED
        BY <3>1, <3>2
    <2>2. A!Max({0, y, z}) \in {0, y, z} /\ \A k \in {0, y, z} : A!Max({0, y, z}) >= k
      BY <2>1 DEF A!Max
    <2> QED
      BY <2>2, <1>9
  <1>11. PICK r \in Int : r = A!RetryAfter(A!RequestCharge(n)) /\ r = IF y >= z THEN y ELSE z
    BY <1>7, <1>8, <1>10
  <1>12. r \in Nat /\ r > 0 /\ y <= r /\ z <= r /\ (r = y \/ r = z)
    BY <1>9, <1>11
  <1>13. A!gcraAllows(A!RequestCharge(n), aNow + r)
    BY <1>5, <1>6, <1>8, <1>12
  <1>14. ~A!gcraAllows(A!RequestCharge(n), aNow + r - 1)
    BY <1>5, <1>6, <1>8, <1>12
  <1> QED
    BY <1>11, <1>13, <1>14
LEMMA AdmissionConstants ==
  ASSUME A!AdmissionAssumption
  PROVE  /\ IsFiniteSet(Procs) /\ Procs # {} /\ DailySends \in Nat /\ TenantMaxQueuedMessages \in Nat
         /\ MaxPendingDispatch \in Nat /\ MaxBatchSize \in Nat /\ MaxItemRecipients \in Nat
  BY DEF A!AdmissionAssumption, A!IsFiniteSet, IsFiniteSet

PastDaily == {"queue", "outbox", "charge", "insert"}
PastQueue == {"outbox", "charge", "insert"}
PastOutbox == {"charge", "insert"}

(* A step of one request that inserts nothing. *)
LEMMA AdmissionMoves ==
  ASSUME A!AdmissionAssumption, AdmissionInv, NEW p \in Procs, NEW r \in Requests,
         aReq' = [aReq EXCEPT ![p] = r], BucketsOK', aNow' = aNow, paid' \in Payments,
         paid'.items + CreditOf(r) + paid.tokens <= paid.items + CreditOf(aReq[p]) + paid'.tokens,
         paid'.accepted + OwedOf(r) + paid.rcpts <= paid.accepted + OwedOf(aReq[p]) + paid'.rcpts,
         daily' = daily /\ queued' = queued /\ pending' = pending,
         (r.pc \in PastDaily => aReq[p].pc \in PastDaily) \/ (daily < DailySends /\ aReq[p].pc \notin PastDaily),
         (r.pc \in PastQueue => aReq[p].pc \in PastQueue) \/ (queued < TenantMaxQueuedMessages /\ aReq[p].pc \notin PastQueue),
         (r.pc \in PastOutbox => aReq[p].pc \in PastOutbox) \/ (pending < MaxPendingDispatch /\ aReq[p].pc \notin PastOutbox)
  PROVE  AdmissionInv'
  <1>1. AdmissionTypes /\ PaymentsCover /\ CapsKept
    BY DEF AdmissionInv
  <1>2. PaymentsCover'
    BY <1>1, PaymentsKept
  <1>3. PICK f, g : f = aReq /\ g = aReq'
    OBVIOUS
  <1>4. g[p] = r /\ (\A q \in Procs \ {p} : g[q] = f[q]) /\ g \in [Procs -> Requests] /\ f[p] = aReq[p]
    BY <1>1, <1>3 DEF AdmissionTypes
  <1>5. daily \in Nat /\ queued \in Nat /\ pending \in Nat
    BY <1>1 DEF AdmissionTypes
  <1>6. Capped(daily, f, PastDaily, DailySends) /\ Capped(queued, f, PastQueue, TenantMaxQueuedMessages)
        /\ Capped(pending, f, PastOutbox, MaxPendingDispatch)
    BY <1>1, <1>3 DEF CapsKept, PastDaily, PastQueue, PastOutbox
  <1>7. Capped(daily, g, PastDaily, DailySends)
    <2>1. CapStep(daily, daily, DailySends, f[p].pc, g[p].pc, PastDaily)
      BY <1>4, <1>5 DEF CapStep
    <2> QED
      BY <2>1, <1>4, <1>5, <1>6, CapKept, AdmissionConstants
  <1>8. Capped(queued, g, PastQueue, TenantMaxQueuedMessages)
    <2>1. CapStep(queued, queued, TenantMaxQueuedMessages, f[p].pc, g[p].pc, PastQueue)
      BY <1>4, <1>5 DEF CapStep
    <2> QED
      BY <2>1, <1>4, <1>5, <1>6, CapKept, AdmissionConstants
  <1>9. Capped(pending, g, PastOutbox, MaxPendingDispatch)
    <2>1. CapStep(pending, pending, MaxPendingDispatch, f[p].pc, g[p].pc, PastOutbox)
      BY <1>4, <1>5 DEF CapStep
    <2> QED
      BY <2>1, <1>4, <1>5, <1>6, CapKept, AdmissionConstants
  <1>10. CapsKept'
    BY <1>3, <1>7, <1>8, <1>9 DEF CapsKept, PastDaily, PastQueue, PastOutbox
  <1>11. AdmissionTypes'
    BY <1>1, <1>3, <1>4 DEF AdmissionTypes, BucketsOK
  <1> QED
    BY <1>2, <1>10, <1>11 DEF AdmissionInv, BucketsOK

(* An insert uses what the checks and the charge set aside. *)
LEMMA InsertKeeps ==
  ASSUME A!AdmissionAssumption, AdmissionInv, NEW p \in Procs, NEW r \in Requests,
         aReq' = [aReq EXCEPT ![p] = r], BucketsOK', aNow' = aNow, paid' \in Payments,
         paid'.items + CreditOf(r) + paid.tokens <= paid.items + CreditOf(aReq[p]) + paid'.tokens,
         paid'.accepted + OwedOf(r) + paid.rcpts <= paid.accepted + OwedOf(aReq[p]) + paid'.rcpts,
         daily' = daily + 1 /\ queued' = queued + 1 /\ pending' = pending + 1,
         r.pc = "item" /\ aReq[p].pc = "insert"
  PROVE  AdmissionInv'
  <1>1. AdmissionTypes /\ PaymentsCover /\ CapsKept
    BY DEF AdmissionInv
  <1>2. PaymentsCover'
    BY <1>1, PaymentsKept
  <1>3. PICK f, g : f = aReq /\ g = aReq'
    OBVIOUS
  <1>4. g[p] = r /\ (\A q \in Procs \ {p} : g[q] = f[q]) /\ g \in [Procs -> Requests] /\ f[p] = aReq[p]
    BY <1>1, <1>3 DEF AdmissionTypes
  <1>5. daily \in Nat /\ queued \in Nat /\ pending \in Nat /\ pending <= queued
    BY <1>1 DEF AdmissionTypes
  <1>6. Capped(daily, f, PastDaily, DailySends) /\ Capped(queued, f, PastQueue, TenantMaxQueuedMessages)
        /\ Capped(pending, f, PastOutbox, MaxPendingDispatch)
    BY <1>1, <1>3 DEF CapsKept, PastDaily, PastQueue, PastOutbox
  <1>7. \A S \in {PastDaily, PastQueue, PastOutbox} : f[p].pc \in S /\ g[p].pc \notin S
    BY <1>4 DEF PastDaily, PastQueue, PastOutbox
  <1>8. daily + 1 \in Nat /\ queued + 1 \in Nat /\ pending + 1 \in Nat
    BY <1>5
  <1>9. Capped(daily + 1, g, PastDaily, DailySends)
    <2>1. CapStep(daily, daily + 1, DailySends, f[p].pc, g[p].pc, PastDaily)
      BY <1>7 DEF CapStep
    <2> QED
      BY <2>1, <1>4, <1>5, <1>6, <1>8, CapKept, AdmissionConstants
  <1>10. Capped(queued + 1, g, PastQueue, TenantMaxQueuedMessages)
    <2>1. CapStep(queued, queued + 1, TenantMaxQueuedMessages, f[p].pc, g[p].pc, PastQueue)
      BY <1>7 DEF CapStep
    <2> QED
      BY <2>1, <1>4, <1>5, <1>6, <1>8, CapKept, AdmissionConstants
  <1>11. Capped(pending + 1, g, PastOutbox, MaxPendingDispatch)
    <2>1. CapStep(pending, pending + 1, MaxPendingDispatch, f[p].pc, g[p].pc, PastOutbox)
      BY <1>7 DEF CapStep
    <2> QED
      BY <2>1, <1>4, <1>5, <1>6, <1>8, CapKept, AdmissionConstants
  <1>12. CapsKept'
    BY <1>3, <1>9, <1>10, <1>11 DEF CapsKept, PastDaily, PastQueue, PastOutbox
  <1>13. AdmissionTypes'
    BY <1>1, <1>3, <1>4, <1>5 DEF AdmissionTypes, BucketsOK
  <1> QED
    BY <1>2, <1>12, <1>13 DEF AdmissionInv, BucketsOK

LEMMA GotoIs ==
  ASSUME AdmissionTypes, NEW p \in Procs, NEW x, A!Goto(p, x)
  PROVE  aReq' = [aReq EXCEPT ![p] = [pc |-> x, left |-> aReq[p].left, cost |-> aReq[p].cost]]
  <1>1. aReq[p] \in [pc: Stages, left: 0..MaxBatchSize, cost: 0..MaxItemRecipients]
    BY DEF AdmissionTypes, Requests
  <1>2. PICK r \in [pc: Stages, left: 0..MaxBatchSize, cost: 0..MaxItemRecipients] : r = aReq[p]
    BY <1>1
  <1>3. [r EXCEPT !.pc = x] = [pc |-> x, left |-> r.left, cost |-> r.cost]
    OBVIOUS
  <1> QED
    BY <1>2, <1>3 DEF A!Goto

(* A check lets a request on only below its cap. *)
LEMMA CheckKeeps ==
  ASSUME A!AdmissionAssumption, AdmissionInv, NEW p \in Procs,
         A!CheckDailySendLimit(p) \/ A!CountTenantQueued(p) \/ A!CountPendingOutbox(p)
  PROVE  AdmissionInv'
  <1>1. AdmissionTypes /\ BucketsOK
    BY DEF AdmissionInv, AdmissionTypes, BucketsOK
  <1>2. PICK x : /\ A!Goto(p, x) /\ UNCHANGED <<aNow, tat, level, paid, daily, queued, pending>>
                 /\ \/ aReq[p].pc = "daily" /\ (x = "item" \/ (x = "queue" /\ daily + 1 <= DailySends))
                    \/ aReq[p].pc = "queue" /\ (x = "item" \/ (x = "outbox" /\ queued < TenantMaxQueuedMessages))
                    \/ aReq[p].pc = "outbox" /\ (x = "item" \/ (x = "charge" /\ pending < MaxPendingDispatch))
    <2>1. CASE A!CheckDailySendLimit(p)
      BY <2>1 DEF A!CheckDailySendLimit, A!Check, A!Stored
    <2>2. CASE A!CountTenantQueued(p)
      BY <2>2 DEF A!CountTenantQueued, A!Check, A!Stored
    <2>3. CASE A!CountPendingOutbox(p)
      BY <2>3 DEF A!CountPendingOutbox, A!Check, A!Stored
    <2> QED
      BY <2>1, <2>2, <2>3
  <1>3. PICK o \in Requests : o = aReq[p]
    BY <1>1 DEF AdmissionTypes
  <1>4. PICK r : r = [pc |-> x, left |-> o.left, cost |-> o.cost]
    OBVIOUS
  <1>5. r \in Requests /\ CreditOf(r) = CreditOf(o) /\ OwedOf(r) = OwedOf(o) /\ r.pc = x
    BY <1>2, <1>3, <1>4 DEF Requests, Stages, CreditOf, OwedOf
  <1>6. aReq' = [aReq EXCEPT ![p] = r]
    BY <1>1, <1>2, <1>3, <1>4, GotoIs
  <1>7. BucketsOK' /\ aNow' = aNow
    BY <1>1, <1>2 DEF BucketsOK, A!GcraIsATokenBucket, A!Tat
  <1>8. /\ (x \in PastDaily => o.pc \in PastDaily) \/ (daily < DailySends /\ o.pc \notin PastDaily)
        /\ (x \in PastQueue => o.pc \in PastQueue) \/ (queued < TenantMaxQueuedMessages /\ o.pc \notin PastQueue)
        /\ (x \in PastOutbox => o.pc \in PastOutbox) \/ (pending < MaxPendingDispatch /\ o.pc \notin PastOutbox)
    <2>1. daily + 1 <= DailySends => daily < DailySends
      BY <1>1, AdmissionConstants DEF AdmissionTypes
    <2> QED
      BY <1>2, <1>3, <2>1 DEF PastDaily, PastQueue, PastOutbox
  <1>9. paid' = paid /\ paid \in Payments
    BY <1>1, <1>2 DEF AdmissionTypes
  <1>10. CreditOf(o) \in Int /\ OwedOf(o) \in Int
    BY <1>3 DEF Requests, CreditOf, OwedOf
  <1>11. /\ paid'.items + CreditOf(r) + paid.tokens <= paid.items + CreditOf(aReq[p]) + paid'.tokens
         /\ paid'.accepted + OwedOf(r) + paid.rcpts <= paid.accepted + OwedOf(aReq[p]) + paid'.rcpts
    BY <1>3, <1>5, <1>9, <1>10 DEF Payments
  <1> QED
    BY <1>2, <1>3, <1>5, <1>6, <1>7, <1>8, <1>9, <1>11, AdmissionMoves
LEMMA PaymentFields ==
  ASSUME NEW w \in Payments, NEW n \in Nat
  PROVE  /\ \A v : v = [w EXCEPT !.tokens = w.tokens + n] =>
                v \in Payments /\ v.tokens = w.tokens + n /\ v.items = w.items /\ v.rcpts = w.rcpts /\ v.accepted = w.accepted
         /\ \A v : v = [w EXCEPT !.items = w.items + n] =>
                v \in Payments /\ v.tokens = w.tokens /\ v.items = w.items + n /\ v.rcpts = w.rcpts /\ v.accepted = w.accepted
         /\ \A v : v = [w EXCEPT !.rcpts = w.rcpts + n] =>
                v \in Payments /\ v.tokens = w.tokens /\ v.items = w.items /\ v.rcpts = w.rcpts + n /\ v.accepted = w.accepted
         /\ \A v : v = [w EXCEPT !.accepted = w.accepted + n] =>
                v \in Payments /\ v.tokens = w.tokens /\ v.items = w.items /\ v.rcpts = w.rcpts /\ v.accepted = w.accepted + n
         /\ w.tokens \in Nat /\ w.items \in Nat /\ w.rcpts \in Nat /\ w.accepted \in Nat
  BY DEF Payments

LEMMA RequestFields ==
  ASSUME A!AdmissionAssumption, NEW o \in Requests
  PROVE  /\ o.pc \in Stages /\ o.left \in 0..MaxBatchSize /\ o.cost \in 0..MaxItemRecipients
         /\ o.left \in Nat /\ o.cost \in Nat
         /\ (o.pc = "batch" => o.left >= 1) /\ (o.pc = "idle" => o.left = 0)
         /\ CreditOf(o) \in Nat /\ OwedOf(o) \in Nat
  BY AdmissionConstants DEF Requests, CreditOf, OwedOf

(* A refusal charges nothing, or what the script took although its answer    *)
(* was lost.                                                               *)
LEMMA RefusedKeeps ==
  ASSUME A!AdmissionAssumption, BucketsOK, aNow \in Nat, aNow' = aNow,
         NEW taken \in SUBSET A!Buckets, NEW charge \in [taken -> Nat], A!Refused(charge)
  PROVE  BucketsOK'
  <1>1. CASE UNCHANGED <<tat, level>>
    BY <1>1 DEF BucketsOK, A!GcraIsATokenBucket, A!Tat
  <1>2. CASE A!Allow(charge)
    BY <1>2, CommitKeeps
  <1> QED
    BY <1>1, <1>2 DEF A!Refused

(* Every request, batch or not, starts with a token. *)
LEMMA MiddlewareKeeps ==
  ASSUME A!AdmissionAssumption, AdmissionInv, NEW p \in Procs, A!requestLimitMiddleware(p)
  PROVE  AdmissionInv'
  <1>1. AdmissionTypes /\ BucketsOK /\ aNow \in Nat
    BY DEF AdmissionInv, AdmissionTypes, BucketsOK
  <1>2. aNow' = aNow /\ daily' = daily /\ queued' = queued /\ pending' = pending /\ aReq[p].pc = "idle"
    BY DEF A!requestLimitMiddleware, A!Stored
  <1>3. CASE A!Refused(A!RequestCharge(1)) /\ UNCHANGED <<aReq, paid>>
    <2>1. {"tenant", "key"} \in SUBSET A!Buckets /\ A!RequestCharge(1) \in [{"tenant", "key"} -> Nat]
      BY DEF A!Buckets, A!RequestCharge
    <2>2. BucketsOK'
      BY <2>1, <1>1, <1>2, <1>3, RefusedKeeps
    <2>3. UNCHANGED <<aNow, aReq, paid, daily, queued, pending>>
      BY <1>2, <1>3
    <2> QED
      BY <2>2, <2>3 DEF AdmissionInv, BucketsOK, AdmissionTypes, CapsKept, PaymentsCover
  <1>4. CASE /\ A!Allow(A!RequestCharge(1)) /\ paid' = [paid EXCEPT !.tokens = @ + 1]
             /\ \E n \in 1..MaxBatchSize :
                  aReq' = [aReq EXCEPT ![p] = [pc |-> IF n > 1 THEN "batch" ELSE "item", left |-> n, cost |-> 0]]
    <2>1. PICK n \in 1..MaxBatchSize :
            aReq' = [aReq EXCEPT ![p] = [pc |-> IF n > 1 THEN "batch" ELSE "item", left |-> n, cost |-> 0]]
      BY <1>4
    <2>2. PICK r : r = [pc |-> IF n > 1 THEN "batch" ELSE "item", left |-> n, cost |-> 0]
      OBVIOUS
    <2>3. r \in Requests /\ CreditOf(r) = 1 /\ OwedOf(r) = 0 /\ r.pc \in {"batch", "item"}
      BY <2>2, AdmissionConstants DEF Requests, Stages, CreditOf, OwedOf
    <2>4. PICK o \in Requests : o = aReq[p]
      BY <1>1 DEF AdmissionTypes
    <2>5. CreditOf(o) = 0 /\ OwedOf(o) = 0
      BY <1>2, <2>4, RequestFields DEF CreditOf, OwedOf
    <2>6. PICK w \in Payments : w = paid
      BY <1>1 DEF AdmissionTypes
    <2>7. /\ paid' \in Payments /\ paid'.tokens = w.tokens + 1 /\ paid'.items = w.items /\ paid'.rcpts = w.rcpts
          /\ paid'.accepted = w.accepted
      <3>1. paid' = [w EXCEPT !.tokens = w.tokens + 1]
        <4>1. paid' = [paid EXCEPT !.tokens = @ + 1]
          BY <1>4, Zenon
        <4> QED
          BY <4>1, <2>6
      <3> QED
        BY <3>1 DEF Payments
    <2>8. /\ paid'.items + CreditOf(r) + paid.tokens <= paid.items + CreditOf(aReq[p]) + paid'.tokens
          /\ paid'.accepted + OwedOf(r) + paid.rcpts <= paid.accepted + OwedOf(aReq[p]) + paid'.rcpts
      BY <2>3, <2>4, <2>5, <2>6, <2>7, PaymentFields
    <2>9. BucketsOK'
      <3>1. {"tenant", "key"} \in SUBSET A!Buckets /\ A!RequestCharge(1) \in [{"tenant", "key"} -> Nat]
        BY DEF A!Buckets, A!RequestCharge
      <3> QED
        BY <3>1, <1>1, <1>2, <1>4, CommitKeeps
    <2>10. r.pc \notin PastDaily /\ r.pc \notin PastQueue /\ r.pc \notin PastOutbox
      BY <2>3 DEF PastDaily, PastQueue, PastOutbox
    <2> QED
      BY <1>2, <2>1, <2>2, <2>3, <2>7, <2>8, <2>9, <2>10, AdmissionMoves
  <1> QED
    BY <1>3, <1>4 DEF A!requestLimitMiddleware

LEMMA DoneIs ==
  ASSUME A!AdmissionAssumption
  PROVE  A!Idle \in Requests /\ CreditOf(A!Idle) = 0 /\ OwedOf(A!Idle) = 0 /\ A!Idle.pc = "idle"
  BY AdmissionConstants DEF A!Idle, Requests, Stages, CreditOf, OwedOf

(* A batch pays for its other items before any of them. *)
LEMMA BatchKeeps ==
  ASSUME A!AdmissionAssumption, AdmissionInv, NEW p \in Procs, A!handleSendBatch(p)
  PROVE  AdmissionInv'
  <1>1. AdmissionTypes /\ BucketsOK /\ aNow \in Nat
    BY DEF AdmissionInv, AdmissionTypes, BucketsOK
  <1>2. aNow' = aNow /\ daily' = daily /\ queued' = queued /\ pending' = pending /\ aReq[p].pc = "batch"
    BY DEF A!handleSendBatch, A!Stored
  <1>3. PICK o \in Requests : o = aReq[p]
    BY <1>1 DEF AdmissionTypes
  <1>4. CreditOf(o) = 1 /\ OwedOf(o) = 0 /\ o.left \in Nat /\ o.left >= 1
    BY <1>2, <1>3, RequestFields DEF CreditOf, OwedOf
  <1>5. PICK w \in Payments : w = paid
    BY <1>1 DEF AdmissionTypes
  <1>6. CASE A!Refused(A!RequestCharge(aReq[p].left - 1)) /\ A!Done(p) /\ UNCHANGED paid
    <2>1. aReq' = [aReq EXCEPT ![p] = A!Idle] /\ paid' = w
      BY <1>5, <1>6 DEF A!Done
    <2>2. BucketsOK'
      <3>1. PICK n \in Nat : n = o.left - 1
        BY <1>4
      <3>2. {"tenant", "key"} \in SUBSET A!Buckets /\ A!RequestCharge(n) \in [{"tenant", "key"} -> Nat]
        BY DEF A!Buckets, A!RequestCharge
      <3>3. A!Refused(A!RequestCharge(n))
        BY <1>3, <1>6, <3>1
      <3> QED
        BY <3>2, <3>3, <1>1, <1>2, RefusedKeeps
    <2>3. A!Idle.pc \notin PastDaily /\ A!Idle.pc \notin PastQueue /\ A!Idle.pc \notin PastOutbox
      BY DoneIs DEF PastDaily, PastQueue, PastOutbox
    <2>4. /\ paid'.items + CreditOf(A!Idle) + paid.tokens <= paid.items + CreditOf(aReq[p]) + paid'.tokens
          /\ paid'.accepted + OwedOf(A!Idle) + paid.rcpts <= paid.accepted + OwedOf(aReq[p]) + paid'.rcpts
      BY <1>3, <1>4, <1>5, <2>1, DoneIs, PaymentFields
    <2> QED
      BY <1>2, <1>5, <2>1, <2>2, <2>3, <2>4, DoneIs, AdmissionMoves
  <1>7. CASE /\ A!Allow(A!RequestCharge(aReq[p].left - 1)) /\ A!Goto(p, "item")
             /\ paid' = [paid EXCEPT !.tokens = @ + (aReq[p].left - 1)]
    <2>1. PICK n \in Nat : n = o.left - 1
      BY <1>4
    <2>2. PICK r : r = [pc |-> "item", left |-> o.left, cost |-> o.cost]
      OBVIOUS
    <2>3. r \in Requests /\ CreditOf(r) = n + 1 /\ OwedOf(r) = 0 /\ r.pc = "item"
      BY <1>4, <2>1, <2>2, RequestFields DEF Requests, Stages, CreditOf, OwedOf
    <2>4. aReq' = [aReq EXCEPT ![p] = r]
      BY <1>1, <1>3, <1>7, <2>2, GotoIs
    <2>5. A!Allow(A!RequestCharge(n)) /\ paid' = [w EXCEPT !.tokens = w.tokens + n]
      BY <1>3, <1>5, <1>7, <2>1
    <2>6. /\ paid' \in Payments /\ paid'.tokens = w.tokens + n /\ paid'.items = w.items /\ paid'.rcpts = w.rcpts
          /\ paid'.accepted = w.accepted
      BY <2>5, PaymentFields
    <2>7. /\ paid'.items + CreditOf(r) + paid.tokens <= paid.items + CreditOf(aReq[p]) + paid'.tokens
          /\ paid'.accepted + OwedOf(r) + paid.rcpts <= paid.accepted + OwedOf(aReq[p]) + paid'.rcpts
      BY <1>3, <1>4, <1>5, <2>3, <2>6, PaymentFields
    <2>8. BucketsOK'
      <3>1. {"tenant", "key"} \in SUBSET A!Buckets /\ A!RequestCharge(n) \in [{"tenant", "key"} -> Nat]
        BY DEF A!Buckets, A!RequestCharge
      <3> QED
        BY <3>1, <1>1, <1>2, <2>5, CommitKeeps
    <2>9. r.pc \notin PastDaily /\ r.pc \notin PastQueue /\ r.pc \notin PastOutbox
      BY <2>3 DEF PastDaily, PastQueue, PastOutbox
    <2> QED
      BY <1>2, <2>3, <2>4, <2>6, <2>7, <2>8, <2>9, AdmissionMoves
  <1> QED
    BY <1>6, <1>7 DEF A!handleSendBatch, A!Surcharge

(* An item uses up one token, worked on or not. *)
LEMMA NextItemKeeps ==
  ASSUME A!AdmissionAssumption, AdmissionInv, NEW p \in Procs, A!NextItem(p)
  PROVE  AdmissionInv'
  <1>1. AdmissionTypes /\ BucketsOK /\ aNow \in Nat
    BY DEF AdmissionInv, AdmissionTypes, BucketsOK
  <1>2. aNow' = aNow /\ tat' = tat /\ level' = level /\ daily' = daily /\ queued' = queued /\ pending' = pending
        /\ aReq[p].pc = "item"
    BY DEF A!NextItem, A!Stored
  <1>3. BucketsOK'
    BY <1>1, <1>2 DEF BucketsOK, A!GcraIsATokenBucket, A!Tat
  <1>4. PICK o \in Requests : o = aReq[p]
    BY <1>1 DEF AdmissionTypes
  <1>5. CreditOf(o) = o.left /\ OwedOf(o) = 0 /\ o.left \in 0..MaxBatchSize /\ o.cost \in 0..MaxItemRecipients /\ o.left \in Nat
    BY <1>2, <1>4, RequestFields DEF CreditOf, OwedOf
  <1>6. PICK w \in Payments : w = paid
    BY <1>1 DEF AdmissionTypes
  <1>7. \E r \in Requests :
          /\ aReq' = [aReq EXCEPT ![p] = r] /\ OwedOf(r) = 0 /\ paid' \in Payments
          /\ r.pc \in {"idle", "item", "daily"}
          /\ paid'.items + CreditOf(r) + w.tokens <= w.items + o.left + paid'.tokens
          /\ paid'.accepted = w.accepted /\ paid'.rcpts = w.rcpts
    <2>1. CASE A!Done(p) /\ UNCHANGED paid
      <3>1. aReq' = [aReq EXCEPT ![p] = A!Idle] /\ paid' = w
        BY <1>6, <2>1 DEF A!Done
      <3>2. paid'.items + CreditOf(A!Idle) + w.tokens <= w.items + o.left + paid'.tokens
        BY <3>1, <1>5, DoneIs, PaymentFields
      <3> QED
        BY <3>1, <3>2, <1>6, DoneIs
    <2>2. CASE o.left # 0 /\ aReq' = [aReq EXCEPT ![p].left = @ - 1] /\ UNCHANGED paid
      <3>1. PICK r : r = [pc |-> "item", left |-> o.left - 1, cost |-> o.cost]
        OBVIOUS
      <3>0. r.pc = "item" /\ r.left = o.left - 1 /\ r.left \in 0..MaxBatchSize
        <4>1. MaxBatchSize \in Nat
          BY DEF A!AdmissionAssumption
        <4> QED
          BY <3>1, <1>5, <2>2, <4>1
      <3>2. r \in Requests /\ OwedOf(r) = 0 /\ r.pc = "item" /\ CreditOf(r) = o.left - 1
        <4>1. r \in Requests
          BY <3>0, <3>1, <1>5 DEF Requests, Stages
        <4> QED
          BY <3>0, <4>1 DEF OwedOf, CreditOf
      <3>3. [o EXCEPT !.left = o.left - 1] = r
        BY <3>1, <1>2, <1>4 DEF Requests
      <3>4. aReq' = [aReq EXCEPT ![p] = r] /\ paid' = w
        BY <1>4, <1>6, <2>2, <3>3
      <3>5. paid'.items + CreditOf(r) + w.tokens <= w.items + o.left + paid'.tokens
        BY <3>2, <3>4, <1>5, PaymentFields
      <3> QED
        BY <3>2, <3>4, <3>5
    <2>3. CASE /\ o.left # 0
               /\ \E c \in 1..MaxItemRecipients :
                    aReq' = [aReq EXCEPT ![p] = [pc |-> "daily", left |-> @.left - 1, cost |-> c]]
               /\ paid' = [paid EXCEPT !.items = @ + 1]
      <3>1. PICK c \in 1..MaxItemRecipients :
              aReq' = [aReq EXCEPT ![p] = [pc |-> "daily", left |-> o.left - 1, cost |-> c]]
        BY <1>4, <2>3
      <3>2. PICK r : r = [pc |-> "daily", left |-> o.left - 1, cost |-> c]
        OBVIOUS
      <3>3. r \in Requests /\ OwedOf(r) = 0 /\ r.pc = "daily" /\ CreditOf(r) = o.left - 1
        BY <3>1, <3>2, <1>5, <2>3, AdmissionConstants DEF Requests, Stages, OwedOf, CreditOf
      <3>4. /\ paid' \in Payments /\ paid'.tokens = w.tokens /\ paid'.items = w.items + 1 /\ paid'.rcpts = w.rcpts
            /\ paid'.accepted = w.accepted
        <4>1. paid' = [w EXCEPT !.items = w.items + 1] /\ 1 \in Nat
          BY <1>6, <2>3
        <4> QED
          BY <4>1, PaymentFields
      <3>5. paid'.items + CreditOf(r) + w.tokens <= w.items + o.left + paid'.tokens
        BY <3>3, <3>4, <1>5, PaymentFields
      <3> QED
        BY <3>1, <3>2, <3>3, <3>4, <3>5
    <2> QED
      BY <1>4, <2>1, <2>2, <2>3 DEF A!NextItem
  <1>8. PICK r \in Requests :
          /\ aReq' = [aReq EXCEPT ![p] = r] /\ OwedOf(r) = 0 /\ paid' \in Payments
          /\ r.pc \in {"idle", "item", "daily"}
          /\ paid'.items + CreditOf(r) + w.tokens <= w.items + o.left + paid'.tokens
          /\ paid'.accepted = w.accepted /\ paid'.rcpts = w.rcpts
    BY <1>7
  <1>9. r.pc \notin PastDaily /\ r.pc \notin PastQueue /\ r.pc \notin PastOutbox
    BY <1>8 DEF PastDaily, PastQueue, PastOutbox
  <1>10. /\ paid'.items + CreditOf(r) + paid.tokens <= paid.items + CreditOf(aReq[p]) + paid'.tokens
         /\ paid'.accepted + OwedOf(r) + paid.rcpts <= paid.accepted + OwedOf(aReq[p]) + paid'.rcpts
    BY <1>4, <1>5, <1>6, <1>8, PaymentFields
  <1> QED
    BY <1>2, <1>3, <1>8, <1>9, <1>10, AdmissionMoves
(* A recipient token for every recipient, before the insert. *)
LEMMA AdmitKeeps ==
  ASSUME A!AdmissionAssumption, AdmissionInv, NEW p \in Procs, A!admitSend(p)
  PROVE  AdmissionInv'
  <1>1. AdmissionTypes /\ BucketsOK /\ aNow \in Nat
    BY DEF AdmissionInv, AdmissionTypes, BucketsOK
  <1>2. aNow' = aNow /\ daily' = daily /\ queued' = queued /\ pending' = pending /\ aReq[p].pc = "charge"
    BY DEF A!admitSend, A!Stored
  <1>3. PICK o \in Requests : o = aReq[p]
    BY <1>1 DEF AdmissionTypes
  <1>4. CreditOf(o) = o.left /\ OwedOf(o) = 0 /\ o.left \in 0..MaxBatchSize /\ o.cost \in 0..MaxItemRecipients
        /\ o.left \in Nat /\ o.cost \in Nat
    BY <1>2, <1>3, RequestFields DEF CreditOf, OwedOf
  <1>5. PICK w \in Payments : w = paid
    BY <1>1 DEF AdmissionTypes
  <1>6. o.pc \in PastDaily /\ o.pc \in PastQueue /\ o.pc \in PastOutbox
    BY <1>2, <1>3 DEF PastDaily, PastQueue, PastOutbox
  <1>7. CASE A!Refused([b \in {"rcpt"} |-> aReq[p].cost]) /\ A!Goto(p, "item") /\ UNCHANGED paid
    <2>1. PICK r : r = [pc |-> "item", left |-> o.left, cost |-> o.cost]
      OBVIOUS
    <2>2. r \in Requests /\ CreditOf(r) = o.left /\ OwedOf(r) = 0
      BY <1>4, <2>1 DEF Requests, Stages, CreditOf, OwedOf
    <2>3. aReq' = [aReq EXCEPT ![p] = r] /\ paid' = w
      BY <1>1, <1>3, <1>5, <1>7, <2>1, GotoIs
    <2>4. BucketsOK'
      <3>1. PICK c : c = [b \in {"rcpt"} |-> o.cost]
        OBVIOUS
      <3>2. {"rcpt"} \in SUBSET A!Buckets /\ c \in [{"rcpt"} -> Nat] /\ A!Refused(c)
        BY <3>1, <1>3, <1>4, <1>7 DEF A!Buckets
      <3> QED
        BY <3>2, <1>1, <1>2, RefusedKeeps
    <2>5. /\ paid'.items + CreditOf(r) + paid.tokens <= paid.items + CreditOf(aReq[p]) + paid'.tokens
          /\ paid'.accepted + OwedOf(r) + paid.rcpts <= paid.accepted + OwedOf(aReq[p]) + paid'.rcpts
      BY <1>3, <1>4, <1>5, <2>2, <2>3, PaymentFields
    <2> QED
      BY <1>2, <1>3, <1>5, <1>6, <2>2, <2>3, <2>4, <2>5, AdmissionMoves
  <1>8. CASE /\ A!Allow([b \in {"rcpt"} |-> aReq[p].cost]) /\ A!Goto(p, "insert")
             /\ paid' = [paid EXCEPT !.rcpts = @ + aReq[p].cost]
    <2>1. PICK r : r = [pc |-> "insert", left |-> o.left, cost |-> o.cost]
      OBVIOUS
    <2>2. r \in Requests /\ CreditOf(r) = o.left /\ OwedOf(r) = o.cost
      BY <1>4, <2>1 DEF Requests, Stages, CreditOf, OwedOf
    <2>3. aReq' = [aReq EXCEPT ![p] = r] /\ paid' = [w EXCEPT !.rcpts = w.rcpts + o.cost]
      BY <1>1, <1>3, <1>5, <1>8, <2>1, GotoIs
    <2>4. BucketsOK'
      <3>1. PICK c : c = [b \in {"rcpt"} |-> o.cost]
        OBVIOUS
      <3>2. {"rcpt"} \in SUBSET A!Buckets /\ c \in [{"rcpt"} -> Nat] /\ A!Allow(c)
        BY <3>1, <1>3, <1>4, <1>8 DEF A!Buckets
      <3> QED
        BY <3>2, <1>1, <1>2, CommitKeeps
    <2>5. /\ paid' \in Payments /\ paid'.tokens = w.tokens /\ paid'.items = w.items /\ paid'.rcpts = w.rcpts + o.cost
          /\ paid'.accepted = w.accepted
      BY <1>4, <2>3, PaymentFields
    <2>6. /\ paid'.items + CreditOf(r) + paid.tokens <= paid.items + CreditOf(aReq[p]) + paid'.tokens
          /\ paid'.accepted + OwedOf(r) + paid.rcpts <= paid.accepted + OwedOf(aReq[p]) + paid'.rcpts
      BY <1>3, <1>4, <1>5, <2>2, <2>5, PaymentFields
    <2> QED
      BY <1>2, <1>3, <1>6, <2>2, <2>3, <2>4, <2>5, <2>6, AdmissionMoves
  <1> QED
    BY <1>7, <1>8 DEF A!admitSend

LEMMA InsertMessageKeeps ==
  ASSUME A!AdmissionAssumption, AdmissionInv, NEW p \in Procs, A!InsertMessage(p)
  PROVE  AdmissionInv'
  <1>1. AdmissionTypes /\ BucketsOK /\ aNow \in Nat
    BY DEF AdmissionInv, AdmissionTypes, BucketsOK
  <1>2. aNow' = aNow /\ tat' = tat /\ level' = level /\ aReq[p].pc = "insert" /\ A!Goto(p, "item")
    BY DEF A!InsertMessage
  <1>3. PICK o \in Requests : o = aReq[p]
    BY <1>1 DEF AdmissionTypes
  <1>4. CreditOf(o) = o.left /\ OwedOf(o) = o.cost /\ o.left \in 0..MaxBatchSize /\ o.cost \in 0..MaxItemRecipients
        /\ o.left \in Nat /\ o.cost \in Nat
    BY <1>2, <1>3, RequestFields DEF CreditOf, OwedOf
  <1>5. PICK w \in Payments : w = paid
    BY <1>1 DEF AdmissionTypes
  <1>6. PICK r : r = [pc |-> "item", left |-> o.left, cost |-> o.cost]
    OBVIOUS
  <1>7. r \in Requests /\ CreditOf(r) = o.left /\ OwedOf(r) = 0 /\ r.pc = "item"
    BY <1>4, <1>6 DEF Requests, Stages, CreditOf, OwedOf
  <1>8. aReq' = [aReq EXCEPT ![p] = r]
    BY <1>1, <1>2, <1>3, <1>6, GotoIs
  <1>9. BucketsOK'
    BY <1>1, <1>2 DEF BucketsOK, A!GcraIsATokenBucket, A!Tat
  <1>10. CASE A!Stored /\ UNCHANGED paid
    <2>1. r.pc \notin PastDaily /\ r.pc \notin PastQueue /\ r.pc \notin PastOutbox
      BY <1>7 DEF PastDaily, PastQueue, PastOutbox
    <2>2. daily' = daily /\ queued' = queued /\ pending' = pending /\ paid' = w
      BY <1>5, <1>10 DEF A!Stored
    <2>3. /\ paid'.items + CreditOf(r) + paid.tokens <= paid.items + CreditOf(aReq[p]) + paid'.tokens
          /\ paid'.accepted + OwedOf(r) + paid.rcpts <= paid.accepted + OwedOf(aReq[p]) + paid'.rcpts
      BY <1>3, <1>4, <1>5, <1>7, <2>2, PaymentFields
    <2> QED
      BY <1>2, <1>5, <1>7, <1>8, <1>9, <2>1, <2>2, <2>3, AdmissionMoves
  <1>11. CASE /\ daily' = daily + 1 /\ queued' = queued + 1 /\ pending' = pending + 1
              /\ paid' = [paid EXCEPT !.accepted = @ + aReq[p].cost]
    <2>1. paid' = [w EXCEPT !.accepted = w.accepted + o.cost]
      BY <1>3, <1>5, <1>11
    <2>2. /\ paid' \in Payments /\ paid'.tokens = w.tokens /\ paid'.items = w.items /\ paid'.rcpts = w.rcpts
          /\ paid'.accepted = w.accepted + o.cost
      BY <1>4, <2>1, PaymentFields
    <2>3. /\ paid'.items + CreditOf(r) + paid.tokens <= paid.items + CreditOf(aReq[p]) + paid'.tokens
          /\ paid'.accepted + OwedOf(r) + paid.rcpts <= paid.accepted + OwedOf(aReq[p]) + paid'.rcpts
      BY <1>3, <1>4, <1>5, <1>7, <2>2, PaymentFields
    <2> QED
      BY <1>2, <1>7, <1>8, <1>9, <1>11, <2>2, <2>3, InsertKeeps
  <1> QED
    BY <1>10, <1>11 DEF A!InsertMessage

LEMMA DrainKeeps ==
  ASSUME A!AdmissionAssumption, AdmissionInv, A!Drain
  PROVE  AdmissionInv'
  <1>1. UNCHANGED <<aNow, tat, level, aReq, daily, paid>>
    BY DEF A!Drain
  <1>2. queued \in Nat /\ pending \in Nat /\ pending <= queued
    BY DEF AdmissionInv, AdmissionTypes
  <1>3. queued' \in Nat /\ pending' \in Nat /\ pending' <= queued' /\ queued' <= queued /\ pending' <= pending
    BY <1>2 DEF A!Drain
  <1>4. PICK a, b, c \in Nat : /\ a = Cardinality(At(aReq, PastQueue)) /\ b = Cardinality(At(aReq, PastOutbox))
                              /\ c = Cardinality(Procs)
    <2>1. PICK p \in Procs : TRUE
      BY AdmissionConstants
    <2>2. \A f, S : Cardinality(At(f, S)) \in Nat
      BY <2>1, AtChange, AdmissionConstants DEF OneMoved
    <2> QED
      BY <2>2, FS_CardinalityType, AdmissionConstants
  <1>5. TenantMaxQueuedMessages \in Nat /\ MaxPendingDispatch \in Nat
    BY AdmissionConstants
  <1>6. queued + a <= TenantMaxQueuedMessages + c - 1 /\ pending + b <= MaxPendingDispatch + c - 1
    BY <1>4 DEF AdmissionInv, CapsKept, Capped, PastQueue, PastOutbox
  <1>7. queued' + a <= TenantMaxQueuedMessages + c - 1 /\ pending' + b <= MaxPendingDispatch + c - 1
    <2>1. \A x, y, k, lim \in Nat : x <= y /\ y + k <= lim + c - 1 => x + k <= lim + c - 1
      OBVIOUS
    <2> QED
      BY <2>1, <1>2, <1>3, <1>5, <1>6
  <1>8. CapsKept'
    BY <1>1, <1>4, <1>7 DEF AdmissionInv, CapsKept, Capped, PastQueue, PastOutbox
  <1>9. AdmissionTypes' /\ PaymentsCover' /\ A!GcraIsATokenBucket'
    BY <1>1, <1>3 DEF AdmissionInv, AdmissionTypes, PaymentsCover, A!GcraIsATokenBucket, A!Tat
  <1> QED
    BY <1>8, <1>9 DEF AdmissionInv

LEMMA AdmissionStep ==
  ASSUME A!AdmissionAssumption, AdmissionInv, [A!Next]_A!vars
  PROVE  AdmissionInv'
  <1>1. ASSUME A!Tick \/ \E b \in A!Buckets : A!KeyExpires(b) PROVE AdmissionInv'
    <2>1. UNCHANGED <<aReq, daily, queued, pending, paid>>
      BY <1>1 DEF A!Tick, A!KeyExpires
    <2>2. BucketsOK' /\ aNow' \in Nat
      BY <1>1, TimeKeepsBuckets DEF AdmissionInv, AdmissionTypes, BucketsOK
    <2> QED
      BY <2>1, <2>2 DEF AdmissionInv, AdmissionTypes, BucketsOK, CapsKept, PaymentsCover
  <1>2. CASE UNCHANGED A!vars
    <2>1. UNCHANGED <<aNow, tat, level, aReq, daily, queued, pending, paid>>
      BY <1>2 DEF A!vars
    <2> QED
      BY <2>1 DEF AdmissionInv, AdmissionTypes, A!GcraIsATokenBucket, A!Tat, CapsKept, PaymentsCover
  <1> QED
    BY <1>1, <1>2, DrainKeeps, MiddlewareKeeps, BatchKeeps, NextItemKeeps, CheckKeeps, AdmitKeeps, InsertMessageKeeps
    DEF A!Next

LEMMA AdmissionStarts ==
  ASSUME A!AdmissionAssumption, A!Init
  PROVE  AdmissionInv
  <1>1. /\ aNow = 0 /\ tat = [b \in A!Buckets |-> 0] /\ level = [b \in A!Buckets |-> A!Window(b)]
        /\ aReq = [p \in Procs |-> A!Idle] /\ daily = 0 /\ queued = 0 /\ pending = 0
        /\ paid = [tokens |-> 0, items |-> 0, rcpts |-> 0, accepted |-> 0]
    BY DEF A!Init
  <1>2. \A b \in A!Buckets : A!Window(b) \in Nat
    BY WindowType
  <1>3. AdmissionTypes
    BY <1>1, <1>2, DoneIs DEF AdmissionTypes, Payments
  <1>4. A!GcraIsATokenBucket
    BY <1>1, <1>2 DEF A!GcraIsATokenBucket, A!Tat
  <1>5. IsFiniteSet(Procs) /\ Cardinality(Procs) \in Nat /\ Cardinality(Procs) # 0
    BY AdmissionConstants, FS_CardinalityType, FS_EmptySet
  <1>6. CapsKept
    <2>1. At(aReq, PastDaily) = {} /\ At(aReq, PastQueue) = {} /\ At(aReq, PastOutbox) = {}
      BY <1>1, DoneIs DEF At, PastDaily, PastQueue, PastOutbox
    <2>2. \A lim \in Nat : 0 + 0 <= lim + Cardinality(Procs) - 1
      BY <1>5
    <2> QED
      BY <1>1, <2>1, <2>2, FS_EmptySet, AdmissionConstants DEF CapsKept, Capped, PastDaily, PastQueue, PastOutbox
  <1>7. PaymentsCover
    <2>1. \A p \in Procs : Credit(aReq)[p] = 0 /\ Owed(aReq)[p] = 0
      BY <1>1, DoneIs DEF Credit, Owed
    <2>2. Units(Credit(aReq), MaxBatchSize) = {} /\ Units(Owed(aReq), MaxItemRecipients) = {}
      BY <2>1 DEF Units
    <2>3. paid.items = 0 /\ paid.tokens = 0 /\ paid.accepted = 0 /\ paid.rcpts = 0
      BY <1>1
    <2> QED
      BY <2>3, <2>2, FS_EmptySet DEF PaymentsCover
  <1> QED
    BY <1>3, <1>4, <1>6, <1>7 DEF AdmissionInv

LEMMA AdmissionInvSuffices ==
  ASSUME A!AdmissionAssumption, AdmissionInv
  PROVE  AdmissionIsExact
  <1>1. A!TypeOK
    BY DEF AdmissionInv, AdmissionTypes, A!TypeOK
  <1>2. A!RetryAfterIsExact
    BY RetryIsExact DEF AdmissionInv, AdmissionTypes, BucketsOK
  <1>3. PICK p \in Procs : TRUE
    BY AdmissionConstants
  <1>4. \A S : Cardinality(At(aReq, S)) \in Nat
    BY <1>3, AtChange, AdmissionConstants DEF OneMoved
  <1>5. Cardinality(Procs) \in Nat
    BY AdmissionConstants, FS_CardinalityType
  <1>6. A!OvershootIsBounded
    <2>1. \A n, k, lim \in Nat : n + k <= lim + Cardinality(Procs) - 1 => n <= lim + (Cardinality(Procs) - 1)
      BY <1>5
    <2>2. daily \in Nat /\ queued \in Nat /\ pending \in Nat
      BY DEF AdmissionInv, AdmissionTypes
    <2>3. /\ daily <= DailySends + (Cardinality(Procs) - 1)
          /\ queued <= TenantMaxQueuedMessages + (Cardinality(Procs) - 1)
          /\ pending <= MaxPendingDispatch + (Cardinality(Procs) - 1)
      BY <1>4, <2>1, <2>2, AdmissionConstants DEF AdmissionInv, CapsKept, Capped
    <2> QED
      BY <2>3, RequestCount DEF A!OvershootIsBounded
  <1>7. A!WorkIsPaidFor
    <2>1. paid \in Payments /\ aReq \in [Procs -> Requests]
      BY DEF AdmissionInv, AdmissionTypes
    <2>2. /\ Credit(aReq) \in [Procs -> 0..MaxBatchSize] /\ Owed(aReq) \in [Procs -> 0..MaxItemRecipients]
      <3>1. \A x \in Requests : CreditOf(x) \in 0..MaxBatchSize /\ OwedOf(x) \in 0..MaxItemRecipients
        BY AdmissionConstants DEF Requests, CreditOf, OwedOf
      <3> QED
        BY <2>1, <3>1 DEF Credit, Owed
    <2>3. Cardinality(Units(Credit(aReq), MaxBatchSize)) \in Nat /\ Cardinality(Units(Owed(aReq), MaxItemRecipients)) \in Nat
      BY <1>3, <2>2, UnitsOfOne, AdmissionConstants
    <2>4. \A n, k, m \in Nat : n + k <= m => n <= m
      OBVIOUS
    <2> QED
      BY <2>1, <2>3, <2>4, PaymentFields DEF AdmissionInv, PaymentsCover, A!WorkIsPaidFor
  <1> QED
    BY <1>1, <1>2, <1>6, <1>7 DEF AdmissionInv, AdmissionIsExact, A!AdmissionIsExact

LEMMA AdmissionAlone ==
  ASSUME A!AdmissionAssumption
  PROVE  A!Spec => []AdmissionIsExact
  <1>1. A!Init => AdmissionInv
    BY AdmissionStarts
  <1>2. AdmissionInv /\ [A!Next]_A!vars => AdmissionInv'
    BY AdmissionStep
  <1>3. AdmissionInv => AdmissionIsExact
    BY AdmissionInvSuffices
  <1> QED
    BY <1>1, <1>2, <1>3, PTL DEF A!Spec

-----------------------------------------------------------------------------
(* The composition.                                                         *)

(* A step of Mail is a step of one component and leaves the others alone, so *)
(* each component runs as specified.                                        *)
LEMMA MailIsComposed ==
  Spec => /\ A!Spec /\ B!Spec /\ I!Spec /\ F!Spec /\ P!Spec
          /\ R!Spec /\ V!Spec /\ L!Spec /\ O!Spec /\ N!Spec /\ Z!Spec /\ E!Spec /\ M!Spec
          /\ D!Spec /\ K!Spec
  <1> USE DEF vars, aVars, tVars, sVars, fVars, pVars, rVars, vVars, lVars, oVars, nVars, zVars, eVars, mVars, dVars, kVars, Next, StepOfAdmission,
              StepOfBroadcasts, StepOfServer, StepOfFiles, StepOfPermits, StepOfRoute, StepOfDomains,
              StepOfLifecycle, StepOfClient, StepOfFeedback, StepOfBackoff, StepOfSpf, StepOfDmarc,
              StepOfData, StepOfSignature
  <1>1. [Next]_vars => [A!Next]_A!vars
    BY DEF A!vars
  <1>2. [Next]_vars => [B!Next]_B!vars
    BY DEF B!vars
  <1>3. [Next]_vars => [I!Next]_I!vars
    BY DEF I!vars
  <1>4. [Next]_vars => [F!Next]_F!vars
    BY DEF F!vars
  <1>5. [Next]_vars => [P!Next]_P!vars
    BY DEF P!vars
  <1>6. [Next]_vars => [R!Next]_R!vars
    BY DEF R!vars
  <1>7. [Next]_vars => [V!Next]_V!vars
    BY DEF V!vars
  <1>8. [Next]_vars => [L!Next]_L!vars
    BY DEF L!vars
  <1>9. [Next]_vars => [O!Next]_O!vars
    BY DEF O!vars
  <1>10. [Next]_vars => [N!Next]_N!vars
    BY DEF N!vars
  <1>11. [Next]_vars => [Z!Next]_Z!vars
    BY DEF Z!vars
  <1>12. [Next]_vars => [E!Next]_E!vars
    BY DEF E!vars
  <1>13. [Next]_vars => [M!Next]_M!vars
    BY DEF M!vars
  <1>14. [Next]_vars => [D!Next]_D!vars
    BY DEF D!vars
  <1>15. [Next]_vars => [K!Next]_K!vars
    BY DEF K!vars
  <1>16. Init => /\ A!Init /\ B!Init /\ I!Init /\ F!Init /\ P!Init /\ R!Init /\ V!Init
                 /\ L!Init /\ O!Init /\ N!Init /\ Z!Init /\ E!Init /\ M!Init
                 /\ D!Init /\ K!Init
    BY DEF Init
  <1> HIDE DEF Next, vars
  <1>17. Spec => A!Spec /\ B!Spec /\ I!Spec /\ F!Spec
    BY <1>1, <1>2, <1>3, <1>4, <1>16, PTL DEF Spec, A!Spec, B!Spec, I!Spec, F!Spec
  <1>18. Spec => P!Spec /\ R!Spec /\ V!Spec /\ L!Spec
    BY <1>5, <1>6, <1>7, <1>8, <1>16, PTL DEF Spec, P!Spec, R!Spec, V!Spec, L!Spec
  <1>19. Spec => O!Spec /\ N!Spec /\ Z!Spec /\ E!Spec /\ M!Spec
    BY <1>9, <1>10, <1>11, <1>12, <1>13, <1>16, PTL DEF Spec, O!Spec, N!Spec, Z!Spec, E!Spec, M!Spec
  <1>20. Spec => D!Spec /\ K!Spec
    BY <1>14, <1>15, <1>16, PTL DEF Spec, D!Spec, K!Spec
  <1> QED
    BY <1>17, <1>18, <1>19, <1>20, PTL

(* The buckets in Redis are token buckets, also after their keys expired, a  *)
(* refusal's Retry-After is the exact wait, the caps are exceeded by at most *)
(* one email for every other request in flight, and no item or recipient is  *)
(* worked on without its token (gcraScript, handleSendBatch, admitSend).    *)
THEOREM AdmissionStaysExact == Spec => []AdmissionIsExact
  BY MailIsComposed, AdmissionAlone, MailAssumption, PTL DEF MailAssumption, AdmissionIsExact

(* Attempts in flight stay within the tenant's and the destination's limit   *)
(* although permits expire, scripts fail and workers crash while they hold   *)
(* them (acquirePermits, acquireScript).                                    *)
THEOREM PermitsBoundAttempts == Spec => []AttemptsWithinPermits
  BY MailIsComposed, PermitsAlone, MailAssumption, PTL DEF MailAssumption, AttemptsWithinPermits

(* An accepted message has its complete files and a purged one none,         *)
(* wherever a saver, a repair or the purge died (Store.Save,                *)
(* PurgeExpiredMessages).                                                  *)
THEOREM FilesAgreeWithRows == Spec => []FilesMatchRows
  BY MailIsComposed, FilesAlone, MailAssumption, PTL DEF MailAssumption, FilesMatchRows

(* Whoever starts when, each migration is committed once and in order; a     *)
(* component runs only while what it uses is open, and a process that ends   *)
(* without an error was asked to (Migrate, applyOne, runComponents).        *)
THEOREM ProcessesAreOrderly == Spec => []LifecycleIsSound
  BY MailIsComposed, LifecycleAlone, MailAssumption, PTL DEF MailAssumption, LifecycleIsSound

(* An envelope is what its own dialogue built, a submission has the          *)
(* authenticated tenant, and the slots are the open sessions                *)
(* (HandleConnectionWithConfig, resetTransaction).                          *)
THEOREM SessionsDoNotMix == Spec => []SessionsAreSeparate
  BY MailIsComposed, SessionsAlone, MailAssumption, PTL DEF MailAssumption, SessionsAreSeparate

(* Every attempt of a message went through the member it was accepted for,   *)
(* by that member's transport and identity (Router.Deliver, buildRouter).   *)
THEOREM RoutesAreKept == Spec => []RouteIsKept
  BY MailIsComposed, RouteAlone, MailAssumption, PTL DEF MailAssumption, RouteIsKept

(* Mail leaves through a member only if member and pool were both enabled    *)
(* at some moment since the job was claimed (holdIfMemberDisabled).         *)
THEOREM SwitchedOffIsOff == Spec => KillSwitchHolds
  BY MailIsComposed, SwitchAlone, MailAssumption, PTL DEF MailAssumption, KillSwitchHolds

(* PATCHes that race leave a template with a body, and a key names one       *)
(* broadcast, also when its claim went stale and was taken over             *)
(* (handleUpdate, CreateBroadcast).                                        *)
THEOREM RequestsStaySound == Spec => []RequestsAreSound
  BY MailIsComposed, RequestsAlone, MailAssumption, PTL DEF MailAssumption, RequestsAreSound

(* A verified registration was proven by its own token, whatever was deleted *)
(* and registered again during the lookup (Verify, RecordDomainCheck).      *)
THEOREM VerifiedDomainsWereProven == Spec => []VerifiedWasProven
  BY MailIsComposed, VerifiedAlone, MailAssumption, PTL DEF MailAssumption, VerifiedWasProven

(* No activation, however it races with others, leaves a domain that signed  *)
(* without an active key (ActivateDKIMKey).                                *)
THEOREM SigningGoesOn == Spec => SigningNeverPauses
  BY MailIsComposed, SigningAlone, MailAssumption, PTL DEF MailAssumption, SigningNeverPauses

(* Credentials and, under TLSRequired, the mail leave only inside TLS; one   *)
(* server at most is offered the message, and it took what is reported       *)
(* accepted; the candidates are tried by preference, none twice, whatever    *)
(* the records of the domain and the replies (Engine.Deliver, Client.Send,   *)
(* sortAndDedup, decideFallback).                                           *)
THEOREM OperationsKeepSecretsAndOrder == Spec => []OperationIsSound
  BY MailIsComposed, OperationAlone, MailAssumption, PTL DEF MailAssumption, OperationIsSound
=============================================================================
