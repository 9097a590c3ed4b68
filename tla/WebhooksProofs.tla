--------------------------- MODULE WebhooksProofs ---------------------------
(***************************************************************************)
(* Proofs about Webhooks: the tables agree (TablesAgree) and history is     *)
(* immutable (HistoryIsImmutable), for any number of subscriptions, events, *)
(* workers, fan-out loops and replicas.                                     *)
(*                                                                         *)
(* What carries the proof is what a transaction may rely on between two of  *)
(* its statements: WorkerFacts for a claim or a completion that holds the   *)
(* delivery's row, DisableFacts for a Disable that holds attempt and         *)
(* delivery rows, Meets for the two against each other, FanFacts for a       *)
(* fan-out that holds events.                                               *)
(***************************************************************************)
EXTENDS Webhooks, TLAPS

-----------------------------------------------------------------------------
(* The inductive invariant. *)

WorkerRecord ==
  [pc : {"idle", "selected", "claiming", "posting", "completing", "closing"},
   d : Deliveries \cup {<<>>}, n : Nat, res : Outcomes \cup {"-"}, skip : SUBSET Tenants]
DisableRecord ==
  [pc : {"idle", "attempts", "deliveries", "cancelling"}, closing : SUBSET (Deliveries \X Nat),
   targets : SUBSET Deliveries, locked : SUBSET Deliveries]

RowTypes ==
  /\ st \in [Deliveries -> Statuses] /\ live \in [Deliveries -> BOOLEAN]
  /\ due \in [Deliveries -> BOOLEAN] /\ attempts \in [Deliveries -> Seq(AttemptStatuses)]
  /\ lapses \in [Deliveries -> Nat]
CountTypes ==
  /\ forced \in Nat /\ faults \in Nat /\ disables \in Nat
  /\ answered \subseteq Deliveries \X Nat /\ late \subseteq Deliveries
FanTypes ==
  /\ ev \in [Events -> {"absent", "pending", "fanned"}] /\ older \in [Events -> SUBSET Subs]
  /\ sub \in [Subs -> {"absent", "enabled", "disabled"}]
  /\ fan = [f \in FanOuts |-> [batch |-> fan[f].batch, matched |-> fan[f].matched]]
  /\ \A f \in FanOuts : /\ fan[f].batch \in SUBSET Events
                         /\ DOMAIN fan[f].matched \subseteq fan[f].batch
                         /\ \A e \in DOMAIN fan[f].matched : fan[f].matched[e] \subseteq Subs

(* The status of a delivery, its attempts and its budget. A delivery that    *)
(* can be claimed has an attempt left in the budget.                        *)
Last(d) == Len(attempts[d])
RowOK(d) ==
  /\ \A i \in 1..(Last(d) - 1) : attempts[d][i] = "retrying"
  /\ st[d] = "delivering" => Last(d) > 0 /\ Open(d, Last(d))
  /\ Last(d) > 0 /\ Open(d, Last(d)) => st[d] \in {"delivering", "cancelled"}
  /\ st[d] \in {"succeeded", "failed"} => Last(d) > 0 /\ attempts[d][Last(d)] = st[d]
  /\ st[d] = "pending" /\ Last(d) > 0 => attempts[d][Last(d)] = "retrying"
  /\ st[d] = "none" => Last(d) = 0
  /\ st[d] = "succeeded" => <<d, Last(d)>> \in answered
  /\ Last(d) <= MaxAttempts + lapses[d]
  /\ st[d] \in {"none", "pending"} => Last(d) < MaxAttempts + lapses[d]
  /\ st[d] = "delivering" /\ ~live[d] => Last(d) < MaxAttempts + lapses[d]

(* What the transaction of a worker relies on. *)
Locking == {"selected", "claiming", "closing"}
Free(d) == st[d] = "pending" \/ (st[d] = "delivering" /\ ~live[d])
WorkerFacts(r) ==
  /\ r.pc # "idle" => r.d \in Deliveries
  /\ r.pc \in {"selected", "claiming"} => Free(r.d)
  /\ r.pc = "claiming" => ~ActiveBeside(r.d)
  /\ r.pc = "closing" => st[r.d] = "delivering" /\ Last(r.d) = r.n
  /\ r.pc \in {"completing", "closing"} =>
       /\ r.res \in Outcomes
       /\ r.res = "succeeded" => <<r.d, r.n>> \in answered
       /\ r.res = "retrying" => r.n < MaxAttempts

(* Two transactions do not hold one delivery or, past the check, one tenant. *)
Apart(r, q) ==
  /\ r.pc \in Locking /\ q.pc \in Locking => r.d # q.d
  /\ r.pc = "claiming" /\ q.pc = "claiming" => Tenant(r.d) # Tenant(q.d)

(* A Disable holds open attempts of its subscription's deliveries, and the   *)
(* deliveries it has locked are unfinished; before it commits it has locked  *)
(* the delivery of every attempt it holds.                                  *)
HeldAttempt(s, a) == a[1][1] = s /\ st[a[1]] = "delivering" /\ a[2] = Last(a[1])
HeldDelivery(s, d) == d[1] = s /\ st[d] \in {"pending", "delivering"}
DisableFacts(s, x) ==
  /\ x.pc \notin {"deliveries", "cancelling"} => x.closing = {}
  /\ x.pc # "cancelling" => x.targets = {} /\ x.locked = {}
  /\ x.pc = "cancelling" => \A a \in x.closing : a[1] \in x.targets \cup x.locked
  /\ \A a \in x.closing : HeldAttempt(s, a)
  /\ \A d \in x.locked : HeldDelivery(s, d)

(* Where the two meet: no worker's transaction holds a delivery that a       *)
(* Disable has locked, and none is about to attempt one that was attempted   *)
(* after its subscription had been disabled.                                *)
Meets(r) ==
  /\ r.pc \in Locking => r.d \notin dis[r.d[1]].locked
  /\ r.pc \in {"selected", "claiming"} => r.d \notin late

(* A subscription is older than an event only if it exists, so what a        *)
(* fan-out matched earlier can only have shrunk.                            *)
EventOK(e) ==
  /\ ev[e] = "absent" => older[e] = {}
  /\ \A s \in older[e] : sub[s] # "absent"
FanFacts(x) ==
  /\ \A e \in x.batch : ev[e] # "absent"
  /\ \A e \in DOMAIN x.matched : Matching(e) \subseteq x.matched[e]

RowsInv == RowTypes /\ CountTypes /\ (\A d \in Deliveries : RowOK(d)) /\ OneActivePerTenant
WorkersInv ==
  /\ worker \in [Workers -> WorkerRecord]
  /\ \A w \in Workers : WorkerFacts(worker[w])
  /\ \A w, v \in Workers : w # v => Apart(worker[w], worker[v])
DisablesInv == dis \in [Subs -> DisableRecord] /\ \A s \in Subs : DisableFacts(s, dis[s])
FansInv ==
  /\ FanTypes /\ (\A e \in Events : EventOK(e)) /\ (\A f \in FanOuts : FanFacts(fan[f]))
  /\ FanOutIsComplete

MeetInv ==
  /\ \A w \in Workers : Meets(worker[w])
  /\ \A d \in late : sub[d[1]] = "disabled"

WebhookInv == RowsInv /\ WorkersInv /\ DisablesInv /\ FansInv /\ MeetInv

-----------------------------------------------------------------------------
(* Operators. *)

(* A history in which some statuses are rewritten in place. *)
LEMMA Rewritten ==
  ASSUME NEW h \in Seq(AttemptStatuses), NEW g, g = [i \in DOMAIN h |-> g[i]],
         \A i \in DOMAIN h : g[i] \in AttemptStatuses
  PROVE  g \in Seq(AttemptStatuses) /\ Len(g) = Len(h) /\ DOMAIN g = DOMAIN h
  <1>1. Len(h) \in Nat /\ DOMAIN h = 1..Len(h)
    OBVIOUS
  <1>2. g \in [1..Len(h) -> AttemptStatuses]
    BY <1>1
  <1>3. QED
    BY <1>1, <1>2

(* Closing attempt n rewrites it only while it is in progress.              *)
LEMMA Closes ==
  ASSUME NEW h \in Seq(AttemptStatuses), NEW n, NEW r \in AttemptStatuses
  PROVE  /\ CloseAttempt(h, n, r) \in Seq(AttemptStatuses) /\ Len(CloseAttempt(h, n, r)) = Len(h)
         /\ DOMAIN CloseAttempt(h, n, r) = DOMAIN h
         /\ \A i \in DOMAIN h : CloseAttempt(h, n, r)[i] = (IF i = n /\ h[i] = "in_progress" THEN r ELSE h[i])
  <1> DEFINE g == CloseAttempt(h, n, r)
  <1>1. g = [i \in DOMAIN h |-> IF i = n /\ h[i] = "in_progress" THEN r ELSE h[i]]
    BY DEF CloseAttempt
  <1>2. \A i \in DOMAIN h : h[i] \in AttemptStatuses
    OBVIOUS
  <1>3. g = [i \in DOMAIN h |-> g[i]] /\ \A i \in DOMAIN h : g[i] \in AttemptStatuses
    BY <1>1, <1>2
  <1>4. \A i \in DOMAIN h : g[i] = (IF i = n /\ h[i] = "in_progress" THEN r ELSE h[i])
    BY <1>1
  <1> HIDE DEF g
  <1>5. g \in Seq(AttemptStatuses) /\ Len(g) = Len(h) /\ DOMAIN g = DOMAIN h
    BY <1>3, Rewritten
  <1>6. QED
    BY <1>4, <1>5 DEF g

(* A worker that is idle has nothing to account for.                        *)
LEMMA IdleWorker == Idle \in WorkerRecord /\ Idle.pc = "idle" /\ WorkerFacts(Idle)
  BY DEF Idle, WorkerRecord, WorkerFacts

(* An idle worker is in nobody's way.                                       *)
LEMMA IdleIsApart == ASSUME NEW r, NEW q, q.pc = "idle" PROVE Apart(r, q) /\ Apart(q, r)
  BY DEF Apart, Locking

(* A disable that has not begun locks nothing.                              *)
LEMMA NoDisableHolds ==
  NoDisable \in DisableRecord /\ NoDisable.locked = {} /\ \A s : DisableFacts(s, NoDisable)
  BY DEF NoDisable, DisableRecord, DisableFacts

(* A delivery is a subscription and an event.                               *)
LEMMA DeliveryPair ==
  ASSUME NEW d \in Deliveries PROVE d[1] \in Subs /\ d[2] \in Events /\ Tenant(d) \in Tenants /\ d = <<d[1], d[2]>>
  BY WebhooksAssumption DEF Deliveries, Tenant

(* The invariant contains the type invariant.                               *)
LEMMA TypesFollow == WebhookInv => TypeOK
  <1> SUFFICES ASSUME WebhookInv PROVE TypeOK
    OBVIOUS
  <1>1. \A w \in Workers : worker[w].pc # "idle" => worker[w].d \in Deliveries
    BY DEF WebhookInv, WorkersInv, WorkerFacts
  <1>2. QED
    BY <1>1 DEF WebhookInv, RowsInv, RowTypes, CountTypes, WorkersInv, WorkerRecord, DisablesInv, DisableRecord,
       FansInv, FanTypes, TypeOK

-----------------------------------------------------------------------------
(* The invariant holds of empty tables.                                     *)
LEMMA WebhookInit == Init => WebhookInv
  <1> SUFFICES ASSUME Init PROVE WebhookInv
    OBVIOUS
  <1>1. RowTypes /\ CountTypes
    BY DEF Init, RowTypes, CountTypes, Statuses
  <1>2. \A d \in Deliveries : st[d] = "none" /\ attempts[d] = <<>> /\ lapses[d] = 0
    BY DEF Init
  <1>3. \A d \in Deliveries : RowOK(d)
    BY <1>2, WebhooksAssumption DEF RowOK, Last
  <1>4. OneActivePerTenant
    BY <1>2 DEF OneActivePerTenant
  <1>5. \A w \in Workers : worker[w] = Idle
    BY DEF Init
  <1>6. WorkersInv
    <2>1. worker \in [Workers -> WorkerRecord]
      BY IdleWorker DEF Init
    <2>2. QED
      BY <1>5, <2>1, IdleWorker, IdleIsApart DEF WorkersInv
  <1>7. DisablesInv
    BY NoDisableHolds DEF Init, DisablesInv
  <1>8. FanTypes
    <2>1. \A f \in FanOuts : fan[f] = NoFan
      BY DEF Init
    <2>2. fan = [f \in FanOuts |-> [batch |-> fan[f].batch, matched |-> fan[f].matched]]
      BY DEF Init, NoFan
    <2>3. NoFan.batch = {} /\ NoFan.matched = <<>> /\ DOMAIN <<>> = {}
      BY DEF NoFan
    <2>4. QED
      BY <2>1, <2>2, <2>3 DEF Init, FanTypes
  <1>9. FansInv
    <2>1. \A f \in FanOuts : fan[f].batch = {} /\ DOMAIN fan[f].matched = {}
      BY DEF Init, NoFan
    <2>2. \A e \in Events : ev[e] = "absent" /\ older[e] = {}
      BY DEF Init
    <2>3. QED
      BY <1>8, <2>1, <2>2 DEF FansInv, EventOK, FanFacts, FanOutIsComplete
  <1>10. MeetInv
    <2>1. late = {}
      BY DEF Init
    <2>2. QED
      BY <1>5, <2>1, IdleWorker DEF MeetInv, Meets, Locking
  <1>11. QED
    BY <1>1, <1>3, <1>4, <1>6, <1>7, <1>9, <1>10 DEF WebhookInv, RowsInv

-----------------------------------------------------------------------------
(* What a step that leaves a part of the state alone keeps. *)

RowKept(d) == st'[d] = st[d] /\ attempts'[d] = attempts[d] /\ (live'[d] => live[d])

(* A step that leaves the delivery rows alone keeps what is known of them.  *)
LEMMA RowsKept ==
  ASSUME WebhookInv, UNCHANGED <<st, due, live, attempts, lapses>>, CountTypes', answered \subseteq answered'
  PROVE  RowsInv'
  <1>1. RowTypes'
    BY DEF WebhookInv, RowsInv, RowTypes
  <1>2. \A d \in Deliveries : RowOK(d)'
    BY DEF WebhookInv, RowsInv, RowOK, Last, Open
  <1>3. OneActivePerTenant'
    BY DEF WebhookInv, RowsInv, OneActivePerTenant, ActiveBeside
  <1>4. QED
    BY <1>1, <1>2, <1>3 DEF RowsInv

(* A fan-out loses nothing when subscriptions only turn off.                *)
LEMMA FansKept ==
  ASSUME WebhookInv, UNCHANGED <<ev, older, fan>>, sub' \in [Subs -> {"absent", "enabled", "disabled"}],
         \A s \in Subs : sub[s] # "absent" => sub'[s] = sub[s] \/ sub'[s] = "disabled",
         \A d \in Deliveries : st[d] # "none" => st'[d] # "none"
  PROVE  FansInv'
  <1>1. FanTypes'
    BY DEF WebhookInv, FansInv, FanTypes
  <1>2. \A e \in Events : EventOK(e)' /\ Matching(e)' \subseteq Matching(e)
    BY DEF WebhookInv, FansInv, FanTypes, EventOK, Matching
  <1>3. \A f \in FanOuts : FanFacts(fan[f])'
    BY <1>2 DEF WebhookInv, FansInv, FanTypes, FanFacts
  <1>4. \A e \in Events : \A s \in Matching(e) : <<s, e>> \in Deliveries
    BY DEF Matching, Deliveries
  <1>5. FanOutIsComplete'
    BY <1>2, <1>4 DEF WebhookInv, FansInv, FanOutIsComplete
  <1>6. QED
    BY <1>1, <1>2, <1>3, <1>5 DEF FansInv

(* A disable's locked rows stay what it read.                               *)
LEMMA DisablesKept ==
  ASSUME WebhookInv, UNCHANGED dis, NEW d \in Deliveries,
         \A x \in Deliveries \ {d} : RowKept(x),
         RowKept(d) \/ (~AttemptLocked(d) /\ d \notin dis[d[1]].locked)
  PROVE  DisablesInv'
  <1>1. ASSUME NEW s \in Subs PROVE DisableFacts(s, dis[s])'
    <2>1. DisableFacts(s, dis[s]) /\ dis[s].closing \subseteq Deliveries \X Nat
      BY DEF WebhookInv, DisablesInv, DisableRecord
    <2>2. ASSUME NEW a \in dis[s].closing PROVE HeldAttempt(s, a)'
      <3>1. a[1] \in Deliveries /\ a[1][1] = s /\ HeldAttempt(s, a)
        BY <2>1 DEF DisableFacts, HeldAttempt
      <3>2. a[1] = d => AttemptLocked(d)
        BY <3>1 DEF AttemptLocked
      <3>3. RowKept(a[1])
        BY <3>1, <3>2
      <3>4. QED
        BY <3>1, <3>3 DEF RowKept, HeldAttempt, Last
    <2>3. ASSUME NEW x \in dis[s].locked PROVE HeldDelivery(s, x)'
      <3>1. x \in Deliveries /\ x[1] = s /\ HeldDelivery(s, x)
        BY <2>1 DEF DisableFacts, HeldDelivery, WebhookInv, DisablesInv, DisableRecord
      <3>2. RowKept(x)
        BY <3>1
      <3>3. QED
        BY <3>1, <3>2 DEF RowKept, HeldDelivery
    <2>4. QED
      BY <2>1, <2>2, <2>3 DEF DisableFacts
  <1>2. QED
    BY <1>1 DEF WebhookInv, DisablesInv

(* Nothing about a disable changes while the rows do not.                   *)
LEMMA SameRowsSameDisables ==
  ASSUME WebhookInv, UNCHANGED <<dis, st, attempts>> PROVE DisablesInv'
  BY DEF WebhookInv, DisablesInv, DisableFacts, HeldAttempt, HeldDelivery, Last

(* Workers and disables stay apart while no worker moves and no disable      *)
(* locks a delivery.                                                        *)
LEMMA MeetKept ==
  ASSUME WebhookInv, UNCHANGED <<worker, late>>,
         \A s \in Subs : dis'[s].locked \subseteq dis[s].locked,
         \A s \in Subs : sub[s] = "disabled" => sub'[s] = "disabled"
  PROVE  MeetInv'
  <1>1. ASSUME NEW w \in Workers PROVE Meets(worker[w])'
    <2>1. Meets(worker[w]) /\ WorkerFacts(worker[w])
      BY DEF WebhookInv, MeetInv, WorkersInv
    <2>2. worker[w].pc \in Locking => worker[w].d[1] \in Subs
      BY <2>1, DeliveryPair DEF WorkerFacts, Locking
    <2>3. QED
      BY <2>1, <2>2 DEF Meets
  <1>2. ASSUME NEW d \in late PROVE sub'[d[1]] = "disabled"
    <2>1. d \in Deliveries /\ sub[d[1]] = "disabled"
      BY DEF WebhookInv, MeetInv, RowsInv, CountTypes
    <2>2. QED
      BY <2>1, DeliveryPair
  <1>3. QED
    BY <1>1, <1>2 DEF MeetInv

(* A worker that did not move, past a step that kept what it holds. *)
LEMMA WorkerKept ==
  ASSUME NEW r \in WorkerRecord, WorkerFacts(r), answered \subseteq answered',
         r.pc \in Locking => RowKept(r.d), r.pc = "claiming" => ~ActiveBeside(r.d)'
  PROVE  WorkerFacts(r)'
  BY DEF WorkerFacts, RowKept, Locking, Free, Last

(* What one worker relies on, the steps of another leave alone.             *)
LEMMA OtherWorker ==
  ASSUME WebhookInv, NEW v \in Workers, worker'[v] = worker[v], answered \subseteq answered',
         worker[v].pc \in Locking => RowKept(worker[v].d),
         \A d \in Deliveries : (worker[v].pc = "claiming" /\ worker[v].d = d) => ~ActiveBeside(d)'
  PROVE  WorkerFacts(worker[v])'
  <1>1. worker[v] \in WorkerRecord /\ WorkerFacts(worker[v])
    BY DEF WebhookInv, WorkersInv
  <1>2. worker[v].pc # "idle" => worker[v].d \in Deliveries
    BY <1>1 DEF WorkerFacts
  <1>3. PICK r : r = worker[v]
    OBVIOUS
  <1>4. (r.pc \in Locking => RowKept(r.d)) /\ (r.pc = "claiming" => ~ActiveBeside(r.d)')
    BY <1>2, <1>3
  <1>5. WorkerFacts(r)'
    BY <1>1, <1>3, <1>4, WorkerKept
  <1>6. QED
    BY <1>3, <1>5

(* So it is for all the workers when none of them moves.                    *)
LEMMA WorkersKept ==
  ASSUME WebhookInv, UNCHANGED worker, answered \subseteq answered',
         \A d \in Deliveries : RowKept(d)
  PROVE  WorkersInv'
  <1>1. \A d \in Deliveries : ActiveBeside(d)' => ActiveBeside(d)
    BY DEF ActiveBeside, RowKept
  <1>2. ASSUME NEW w \in Workers PROVE WorkerFacts(worker[w])'
    <2>1. WorkerFacts(worker[w])
      BY DEF WebhookInv, WorkersInv
    <2>2. worker[w].pc \in Locking => RowKept(worker[w].d)
      BY <2>1 DEF WorkerFacts, Locking
    <2>3. \A d \in Deliveries : (worker[w].pc = "claiming" /\ worker[w].d = d) => ~ActiveBeside(d)'
      BY <1>1, <2>1 DEF WorkerFacts
    <2>4. QED
      BY <2>2, <2>3, OtherWorker
  <1>3. QED
    BY <1>2 DEF WebhookInv, WorkersInv

(* The worker w moves to r; the others keep what they hold. *)
LEMMA WorkersMove ==
  ASSUME WebhookInv, NEW w \in Workers, NEW r \in WorkerRecord, worker' = [worker EXCEPT ![w] = r],
         WorkerFacts(r)', \A v \in Workers \ {w} : WorkerFacts(worker[v])',
         \A v \in Workers \ {w} : Apart(worker[v], r) /\ Apart(r, worker[v])
  PROVE  WorkersInv'
  <1>1. worker' \in [Workers -> WorkerRecord] /\ worker'[w] = r /\ \A v \in Workers \ {w} : worker'[v] = worker[v]
    BY DEF WebhookInv, WorkersInv
  <1>2. \A v \in Workers : WorkerFacts(worker[v])'
    BY <1>1
  <1>3. ASSUME NEW u \in Workers, NEW v \in Workers, u # v PROVE Apart(worker[u], worker[v])'
    BY <1>1, <1>3 DEF WebhookInv, WorkersInv, Apart
  <1>4. QED
    BY <1>1, <1>2, <1>3 DEF WorkersInv

(* So it is with what keeps it and the disables apart.                      *)
LEMMA MeetMoves ==
  ASSUME WebhookInv, NEW w \in Workers, NEW r, worker' = [worker EXCEPT ![w] = r],
         UNCHANGED <<dis, sub, late>>, Meets(r)
  PROVE  MeetInv'
  <1>1. worker'[w] = r /\ \A v \in Workers \ {w} : worker'[v] = worker[v]
    BY DEF WebhookInv, WorkersInv
  <1>2. \A v \in Workers : Meets(worker'[v])
    BY <1>1 DEF WebhookInv, MeetInv
  <1>3. QED
    BY <1>2 DEF WebhookInv, MeetInv, Meets

(* A step of a worker that writes no table. *)
LEMMA OnlyWorkerMoves ==
  ASSUME WebhookInv, NEW w \in Workers, NEW r \in WorkerRecord, worker' = [worker EXCEPT ![w] = r],
         UNCHANGED <<tables, fan, dis, lapses, late>>, CountTypes', answered \subseteq answered', WorkerFacts(r)',
         Meets(r),
         \A v \in Workers \ {w} : Apart(worker[v], r) /\ Apart(r, worker[v])
  PROVE  WebhookInv'
  <1>1. \A d \in Deliveries : RowKept(d) /\ (ActiveBeside(d)' <=> ActiveBeside(d))
    BY DEF tables, RowKept, ActiveBeside
  <1>2. ASSUME NEW v \in Workers \ {w} PROVE WorkerFacts(worker[v])'
    <2>1. WorkerFacts(worker[v]) /\ worker'[v] = worker[v]
      BY DEF WebhookInv, WorkersInv
    <2>2. worker[v].pc \in Locking => RowKept(worker[v].d)
      BY <1>1, <2>1 DEF WorkerFacts, Locking
    <2>3. \A d \in Deliveries : (worker[v].pc = "claiming" /\ worker[v].d = d) => ~ActiveBeside(d)'
      BY <1>1, <2>1 DEF WorkerFacts
    <2>4. QED
      BY <2>1, <2>2, <2>3, OtherWorker DEF tables
  <1>3. WorkersInv'
    BY <1>2, WorkersMove
  <1>4. RowsInv'
    BY RowsKept DEF tables
  <1>5. FansInv'
    BY FansKept DEF tables, WebhookInv, FansInv, FanTypes
  <1>6. DisablesInv'
    BY SameRowsSameDisables DEF tables
  <1>7. MeetInv'
    BY MeetMoves DEF tables
  <1>8. QED
    BY <1>3, <1>4, <1>5, <1>6, <1>7 DEF WebhookInv

-----------------------------------------------------------------------------
(* The steps of a worker that write no table. *)

(* A worker may stop anywhere: its transaction is rolled back.              *)
LEMMA WorkerStops ==
  ASSUME WebhookInv, NEW w \in Workers, worker' = [worker EXCEPT ![w] = Idle],
         UNCHANGED <<tables, fan, dis, lapses, answered, late>>, CountTypes'
  PROVE  WebhookInv'
  <1>1. WorkerFacts(Idle)'
    BY DEF Idle, WorkerFacts
  <1>2. PICK r : r = Idle
    OBVIOUS
  <1>3. WorkerFacts(r)' /\ r \in WorkerRecord /\ r.pc = "idle" /\ Meets(r)
    BY <1>1, <1>2, IdleWorker DEF Meets, Locking
  <1>4. QED
    BY <1>2, <1>3, IdleIsApart, OnlyWorkerMoves

(* The claim's first read keeps the invariant.                              *)
LEMMA SelectKeeps == ASSUME WebhookInv, NEW w \in Workers, ClaimSelect(w) PROVE WebhookInv'
  <1>1. PICK d \in Deliveries : /\ Claimable(d, worker[w].skip)
                                /\ worker' = [worker EXCEPT ![w].pc = "selected", ![w].d = d]
    BY DEF ClaimSelect
  <1>2. worker[w] \in WorkerRecord
    BY DEF WebhookInv, WorkersInv
  <1>3. PICK r : r = [worker[w] EXCEPT !.pc = "selected", !.d = d]
    OBVIOUS
  <1>4. r \in WorkerRecord /\ r.pc = "selected" /\ r.d = d
    BY <1>2, <1>3 DEF WorkerRecord
  <1>5. worker' = [worker EXCEPT ![w] = r]
    BY <1>1, <1>3 DEF WebhookInv, WorkersInv
  <1>6. UNCHANGED <<tables, fan, dis, history>>
    BY DEF ClaimSelect
  <1>7. Free(d)'
    BY <1>1, <1>6 DEF Claimable, Free, tables
  <1>8. WorkerFacts(r)'
    BY <1>4, <1>7 DEF WorkerFacts
  <1>9. \A v \in Workers \ {w} : worker[v].pc \in Locking => worker[v].d # d
    BY <1>1 DEF Claimable, DeliveryLocked, HeldByWorker, Locking
  <1>10. \A v \in Workers \ {w} : Apart(worker[v], r) /\ Apart(r, worker[v])
    BY <1>4, <1>9 DEF Apart
  <1>11. CountTypes'
    BY <1>6 DEF history, WebhookInv, RowsInv, CountTypes
  <1>12. Meets(r)
    <2>1. sub[d[1]] = "enabled" /\ d \notin dis[d[1]].locked
      BY <1>1 DEF Claimable, DeliveryLocked
    <2>2. d \notin late
      BY <2>1 DEF WebhookInv, MeetInv
    <2>3. QED
      BY <1>4, <2>1, <2>2 DEF Meets
  <1>13. QED
    BY <1>4, <1>5, <1>6, <1>8, <1>10, <1>11, <1>12, OnlyWorkerMoves DEF history

(* So does its second look, under the tenant's lock.                        *)
LEMMA RecheckKeeps == ASSUME WebhookInv, NEW w \in Workers, ClaimRecheck(w) PROVE WebhookInv'
  <1> DEFINE d == worker[w].d
  <1>1. worker[w] \in WorkerRecord /\ WorkerFacts(worker[w]) /\ worker[w].pc = "selected" /\ d \in Deliveries
    BY DEF WebhookInv, WorkersInv, ClaimRecheck, WorkerFacts
  <1>2. UNCHANGED <<tables, fan, dis, history>> /\ CountTypes'
    BY DEF ClaimRecheck, history, WebhookInv, RowsInv, CountTypes
  <1>3. CASE ActiveBeside(d)
    <2>1. PICK r : r = Waiting(worker[w].skip \cup {Tenant(d)})
      OBVIOUS
    <2>2. worker[w].skip \cup {Tenant(d)} \in SUBSET Tenants
      BY <1>1, DeliveryPair DEF WorkerRecord
    <2>3. r \in WorkerRecord /\ r.pc = "idle"
      BY <2>1, <2>2 DEF Waiting, Idle, WorkerRecord
    <2>4. worker' = [worker EXCEPT ![w] = r]
      BY <1>3, <2>1 DEF ClaimRecheck, WebhookInv, WorkersInv
    <2>5. WorkerFacts(r)'
      BY <2>3 DEF WorkerFacts
    <2>6. Meets(r)
      BY <2>3 DEF Meets, Locking
    <2>7. QED
      BY <1>2, <2>3, <2>4, <2>5, <2>6, IdleIsApart, OnlyWorkerMoves DEF history
  <1>4. CASE ~ActiveBeside(d)
    <2>1. PICK r : r = [worker[w] EXCEPT !.pc = "claiming"]
      OBVIOUS
    <2>2. r \in WorkerRecord /\ r.pc = "claiming" /\ r.d = d
      BY <1>1, <2>1 DEF WorkerRecord
    <2>3. worker' = [worker EXCEPT ![w] = r]
      BY <1>4, <2>1 DEF ClaimRecheck, WebhookInv, WorkersInv
    <2>4. PICK x : x = d
      OBVIOUS
    <2>5. ~ActiveBeside(x)'
      BY <1>2, <1>4, <2>4 DEF ActiveBeside, tables
    <2>6. Free(x) /\ x \in Deliveries
      BY <1>1, <2>4 DEF WorkerFacts
    <2>7. Free(x)'
      BY <1>2, <2>6 DEF Free, tables
    <2>8. WorkerFacts(r)'
      BY <2>2, <2>4, <2>5, <2>6, <2>7 DEF WorkerFacts
    <2>9. ASSUME NEW v \in Workers \ {w} PROVE Apart(worker[v], r) /\ Apart(r, worker[v])
      <3>1. Apart(worker[v], worker[w])
        BY DEF WebhookInv, WorkersInv
      <3>2. worker[v].pc \in Locking => worker[v].d # d
        BY <1>1, <3>1 DEF Apart, Locking
      <3>3. worker[v].pc = "claiming" => Tenant(worker[v].d) # Tenant(d)
        BY DEF ClaimRecheck, TenantLocked
      <3>4. QED
        BY <2>2, <3>2, <3>3 DEF Apart
    <2>10. Meets(r)
      <3>1. Meets(worker[w])
        BY DEF WebhookInv, MeetInv
      <3>2. QED
        BY <1>1, <2>2, <3>1 DEF Meets, Locking
    <2>11. QED
      BY <1>2, <2>2, <2>3, <2>8, <2>9, <2>10, OnlyWorkerMoves DEF history
  <1>5. QED
    BY <1>3, <1>4

(* Only a 2xx answer succeeds and only an attempt below the budget is       *)
(* retried.                                                                 *)
LEMMA OutcomeIsOne ==
  ASSUME NEW reply \in Replies, NEW n \in Nat
  PROVE  /\ Outcome(reply, n) \in Outcomes /\ (Outcome(reply, n) = "succeeded" => reply = "2xx")
         /\ Outcome(reply, n) = "retrying" => n < MaxAttempts
  BY WebhooksAssumption DEF Outcome, Outcomes, Replies, retryOrFail

(* An answer is remembered before it is reported.                           *)
LEMMA DeliverKeeps == ASSUME WebhookInv, NEW w \in Workers, Deliver(w) PROVE WebhookInv'
  <1>1. worker[w] \in WorkerRecord /\ worker[w].d \in Deliveries /\ worker[w].n \in Nat
    BY DEF WebhookInv, WorkersInv, Deliver, WorkerFacts, WorkerRecord
  <1>2. PICK reply \in Replies :
          /\ worker' = [worker EXCEPT ![w].pc = "completing", ![w].res = Outcome(reply, worker[w].n)]
          /\ answered' = IF reply = "2xx" THEN answered \cup {<<worker[w].d, worker[w].n>>} ELSE answered
    BY DEF Deliver
  <1>3. PICK o : o = Outcome(reply, worker[w].n)
    OBVIOUS
  <1>4. o \in Outcomes /\ (o = "succeeded" => reply = "2xx") /\ (o = "retrying" => worker[w].n < MaxAttempts)
    BY <1>1, <1>3, OutcomeIsOne
  <1>5. PICK r : r = [worker[w] EXCEPT !.pc = "completing", !.res = o]
    OBVIOUS
  <1>6. r \in WorkerRecord /\ r.pc = "completing" /\ r.res = o /\ r.d = worker[w].d /\ r.n = worker[w].n
    BY <1>1, <1>4, <1>5 DEF WorkerRecord
  <1>7. worker' = [worker EXCEPT ![w] = r]
    BY <1>2, <1>3, <1>5 DEF WebhookInv, WorkersInv
  <1>8. WorkerFacts(r)'
    BY <1>1, <1>2, <1>4, <1>6 DEF WorkerFacts
  <1>9. CountTypes' /\ answered \subseteq answered' /\ UNCHANGED <<tables, fan, dis, lapses, late>>
    BY <1>1, <1>2 DEF Deliver, CountTypes, WebhookInv, RowsInv
  <1>10. \A v \in Workers \ {w} : Apart(worker[v], r) /\ Apart(r, worker[v])
    BY <1>6 DEF Apart, Locking
  <1>11. Meets(r)
    BY <1>6 DEF Meets, Locking
  <1>12. QED
    BY <1>6, <1>7, <1>8, <1>9, <1>10, <1>11, OnlyWorkerMoves

(* Completing locks the attempt it reports on.                              *)
LEMMA LockKeeps == ASSUME WebhookInv, NEW w \in Workers, CompleteLock(w) PROVE WebhookInv'
  <1>1. worker[w] \in WorkerRecord /\ WorkerFacts(worker[w]) /\ worker[w].pc = "completing"
    BY DEF WebhookInv, WorkersInv, CompleteLock
  <1>2. UNCHANGED <<tables, fan, dis, history>> /\ CountTypes'
    BY DEF CompleteLock, history, WebhookInv, RowsInv, CountTypes
  <1>3. CASE ~Owns(w)
    BY <1>2, <1>3, WorkerStops DEF CompleteLock, history
  <1>4. CASE Owns(w)
    <2>1. PICK r : r = [worker[w] EXCEPT !.pc = "closing"]
      OBVIOUS
    <2>2. /\ r \in WorkerRecord /\ r.pc = "closing"
          /\ r.res = worker[w].res /\ r.d = worker[w].d /\ r.n = worker[w].n
      BY <1>1, <2>1 DEF WorkerRecord
    <2>3. worker' = [worker EXCEPT ![w] = r]
      BY <1>4, <2>1 DEF CompleteLock, WebhookInv, WorkersInv
    <2>4. WorkerFacts(r)'
      BY <1>1, <1>2, <1>4, <2>2 DEF WorkerFacts, Owns, Last, tables, history
    <2>5. \A v \in Workers \ {w} : worker[v].pc \in Locking => worker[v].d # worker[w].d
      BY DEF CompleteLock, DeliveryLocked, HeldByWorker, Locking
    <2>6. \A v \in Workers \ {w} : Apart(worker[v], r) /\ Apart(r, worker[v])
      BY <2>2, <2>5 DEF Apart
    <2>7. Meets(r)
      BY <2>2 DEF CompleteLock, DeliveryLocked, Meets
    <2>8. QED
      BY <1>2, <2>2, <2>3, <2>4, <2>6, <2>7, OnlyWorkerMoves DEF history
  <1>5. QED
    BY <1>3, <1>4

-----------------------------------------------------------------------------
(* The steps of a Disable and of a fan-out that write no table. *)

(* A step of a disable before its commit changes no table.                  *)
LEMMA OnlyDisableMoves ==
  ASSUME WebhookInv, NEW s \in Subs, NEW x \in DisableRecord, DisableFacts(s, x), dis' = [dis EXCEPT ![s] = x],
         \A d \in x.locked \ dis[s].locked : ~HeldByWorker(d),
         UNCHANGED <<tables, worker, fan, lapses, answered, late>>, CountTypes'
  PROVE  WebhookInv'
  <1>1. dis' \in [Subs -> DisableRecord] /\ \A t \in Subs : dis'[t] = IF t = s THEN x ELSE dis[t]
    BY DEF WebhookInv, DisablesInv
  <1>2. \A t \in Subs : DisableFacts(t, dis'[t])
    BY <1>1 DEF WebhookInv, DisablesInv
  <1>3. DisablesInv'
    BY <1>1, <1>2 DEF DisablesInv, DisableFacts, HeldAttempt, HeldDelivery, Last, tables
  <1>4. RowsInv'
    BY RowsKept DEF tables
  <1>5. FansInv'
    BY FansKept DEF tables, WebhookInv, FansInv, FanTypes
  <1>6. WorkersInv'
    BY WorkersKept DEF tables, RowKept
  <1>7. MeetInv'
    <2>1. ASSUME NEW w \in Workers PROVE Meets(worker[w])'
      <3>1. Meets(worker[w]) /\ WorkerFacts(worker[w]) /\ worker' = worker /\ late' = late
        BY DEF WebhookInv, MeetInv, WorkersInv
      <3>2. worker[w].pc \in Locking => worker[w].d[1] \in Subs /\ HeldByWorker(worker[w].d)
        BY <3>1, DeliveryPair DEF WorkerFacts, Locking, HeldByWorker
      <3>3. worker[w].pc \in Locking => worker[w].d \notin dis'[worker[w].d[1]].locked
        BY <1>1, <3>1, <3>2 DEF Meets
      <3>4. QED
        BY <3>1, <3>3 DEF Meets
    <2>2. QED
      BY <2>1 DEF WebhookInv, MeetInv, tables
  <1>8. QED
    BY <1>3, <1>4, <1>5, <1>6, <1>7 DEF WebhookInv

(* A step of a fan-out before its commit changes no table.                  *)
LEMMA OnlyFanMoves ==
  ASSUME WebhookInv, UNCHANGED <<tables, worker, dis, lapses, answered, late>>, CountTypes', FanTypes',
         \A f \in FanOuts : FanFacts(fan[f])'
  PROVE  WebhookInv'
  <1>1. RowsInv'
    BY RowsKept DEF tables
  <1>2. WorkersInv'
    BY WorkersKept DEF tables, RowKept
  <1>3. DisablesInv'
    BY SameRowsSameDisables DEF tables
  <1>4. FansInv'
    BY DEF WebhookInv, FansInv, EventOK, FanOutIsComplete, Matching, tables
  <1>5. MeetInv'
    BY MeetKept DEF tables
  <1>6. QED
    BY <1>1, <1>2, <1>3, <1>4, <1>5 DEF WebhookInv

(* The fan-out f moves to a batch b with the matches m. *)
LEMMA FanMoves ==
  ASSUME WebhookInv, NEW f \in FanOuts, NEW b \in SUBSET Events, NEW m, DOMAIN m \subseteq b,
         \A e \in DOMAIN m : m[e] \subseteq Subs, \A e \in b : ev[e] # "absent",
         \A e \in DOMAIN m : Matching(e) \subseteq m[e],
         fan' = [fan EXCEPT ![f] = [batch |-> b, matched |-> m]],
         UNCHANGED <<tables, worker, dis, lapses, answered, late>>, CountTypes'
  PROVE  WebhookInv'
  <1>1. \A g \in FanOuts : \/ fan'[g] = fan[g]
                           \/ g = f /\ fan'[g].batch = b /\ fan'[g].matched = m
    BY DEF WebhookInv, FansInv, FanTypes
  <1>2. fan' = [g \in FanOuts |-> [batch |-> fan'[g].batch, matched |-> fan'[g].matched]]
    BY DEF WebhookInv, FansInv, FanTypes
  <1>3. FanTypes'
    BY <1>1, <1>2 DEF WebhookInv, FansInv, FanTypes, tables
  <1>4. \A g \in FanOuts : FanFacts(fan[g])'
    BY <1>1 DEF WebhookInv, FansInv, FanFacts, Matching, tables
  <1>5. QED
    BY <1>3, <1>4, OnlyFanMoves

(* The reads of a fan-out keep the invariant.                               *)
LEMMA FanStepsKeep ==
  ASSUME WebhookInv, NEW f \in FanOuts, FanOutSelect(f) \/ FanOutMatch(f) \/ FanOutFails(f) PROVE WebhookInv'
  <1>1. UNCHANGED <<tables, worker, dis, lapses, answered, late>> /\ CountTypes'
    <2>1. UNCHANGED <<tables, worker, dis, lapses, forced, disables, answered, late>> /\ (faults' = faults \/ faults' = faults + 1)
      BY DEF FanOutSelect, FanOutMatch, FanOutFails, history
    <2>2. QED
      BY <2>1 DEF WebhookInv, RowsInv, CountTypes
  <1>2. fan[f] = [batch |-> fan[f].batch, matched |-> fan[f].matched] /\ fan[f].batch \in SUBSET Events
    BY DEF WebhookInv, FansInv, FanTypes
  <1>3. CASE FanOutSelect(f)
    <2>1. PICK B \in SUBSET Events : (\A e \in B : ev[e] = "pending") /\ fan' = [fan EXCEPT ![f].batch = B]
      BY <1>3 DEF FanOutSelect
    <2>2. fan[f].matched = <<>> /\ DOMAIN <<>> = {}
      BY <1>3 DEF FanOutSelect, NoFan
    <2>3. fan' = [fan EXCEPT ![f] = [batch |-> B, matched |-> <<>>]]
      <3>1. [fan[f] EXCEPT !.batch = B] = [batch |-> B, matched |-> <<>>]
        BY <1>2, <2>2
      <3>2. fan' = [fan EXCEPT ![f] = [fan[f] EXCEPT !.batch = B]]
        BY <2>1
      <3>3. QED
        BY <3>1, <3>2
    <2>4. QED
      BY <1>1, <2>1, <2>2, <2>3, FanMoves
  <1>4. CASE FanOutMatch(f)
    <2>1. PICK e \in fan[f].batch \ DOMAIN fan[f].matched :
            fan' = [fan EXCEPT ![f].matched = [x \in DOMAIN @ \cup {e} |-> IF x = e THEN Matching(e) ELSE @[x]]]
      BY <1>4 DEF FanOutMatch
    <2>2. PICK b : b = fan[f].batch
      OBVIOUS
    <2>3. PICK m : m = [x \in DOMAIN fan[f].matched \cup {e} |-> IF x = e THEN Matching(e) ELSE fan[f].matched[x]]
      OBVIOUS
    <2>4. fan' = [fan EXCEPT ![f] = [batch |-> b, matched |-> m]]
      <3>1. [fan[f] EXCEPT !.matched = m] = [batch |-> b, matched |-> m]
        BY <1>2, <2>2
      <3>2. fan' = [fan EXCEPT ![f] = [fan[f] EXCEPT !.matched = m]]
        BY <2>1, <2>3
      <3>3. QED
        BY <3>1, <3>2
    <2>5. DOMAIN m = DOMAIN fan[f].matched \cup {e} /\ \A x \in DOMAIN m : m[x] = IF x = e THEN Matching(e) ELSE fan[f].matched[x]
      BY <2>3
    <2>6. DOMAIN m \subseteq b /\ \A x \in DOMAIN m : m[x] \subseteq Subs /\ Matching(x) \subseteq m[x]
      <3>1. /\ DOMAIN fan[f].matched \subseteq b
            /\ \A x \in DOMAIN fan[f].matched : fan[f].matched[x] \subseteq Subs /\ Matching(x) \subseteq fan[f].matched[x]
        BY <2>2 DEF WebhookInv, FansInv, FanTypes, FanFacts
      <3>2. Matching(e) \subseteq Subs /\ e \in b
        BY <2>1, <2>2 DEF Matching
      <3>3. QED
        BY <2>5, <3>1, <3>2
    <2>7. \A x \in b : ev[x] # "absent"
      BY <2>2 DEF WebhookInv, FansInv, FanFacts
    <2>8. QED
      BY <1>1, <1>2, <2>2, <2>4, <2>6, <2>7, FanMoves
  <1>5. CASE FanOutFails(f)
    <2>1. fan' = [fan EXCEPT ![f] = [batch |-> {}, matched |-> <<>>]] /\ DOMAIN <<>> = {}
      BY <1>5 DEF FanOutFails, NoFan
    <2>2. QED
      BY <1>1, <2>1, FanMoves
  <1>6. QED
    BY <1>3, <1>4, <1>5

-----------------------------------------------------------------------------
(* The steps that write the tables. *)

SameRow(x) == st'[x] = st[x] /\ attempts'[x] = attempts[x] /\ live'[x] = live[x] /\ lapses'[x] = lapses[x]

(* A row that nobody writes stays in order.                                 *)
LEMMA SameRowKeeps == ASSUME NEW x, RowOK(x), SameRow(x), answered \subseteq answered' PROVE RowOK(x)' /\ RowKept(x)
  BY DEF RowOK, SameRow, RowKept, Last, Open

(* A write to one row keeps the table in order.                             *)
LEMMA RowMoves ==
  ASSUME WebhookInv, NEW d \in Deliveries, RowTypes', CountTypes', answered \subseteq answered',
         \A x \in Deliveries \ {d} : SameRow(x), RowOK(d)',
         st'[d] = "delivering" /\ live'[d] => ~ActiveBeside(d)
  PROVE  RowsInv'
  <1>1. \A x \in Deliveries : RowOK(x)'
    BY SameRowKeeps DEF WebhookInv, RowsInv
  <1>2. ASSUME NEW x \in Deliveries, NEW y \in Deliveries, st'[x] = "delivering", live'[x], st'[y] = "delivering", live'[y],
               x # y, Tenant(x) = Tenant(y)
        PROVE FALSE
    <2>1. CASE x = d
      BY <1>2, <2>1 DEF ActiveBeside, SameRow
    <2>2. CASE y = d
      BY <1>2, <2>2 DEF ActiveBeside, SameRow
    <2>3. CASE x # d /\ y # d
      BY <1>2, <2>3 DEF WebhookInv, RowsInv, OneActivePerTenant, ActiveBeside, SameRow
    <2>4. QED
      BY <2>1, <2>2, <2>3
  <1>3. OneActivePerTenant'
    BY <1>2 DEF OneActivePerTenant, ActiveBeside
  <1>4. QED
    BY <1>1, <1>3 DEF RowsInv

(* A new subscription keeps the invariant.                                  *)
LEMMA SubscribeKeeps == ASSUME WebhookInv, NEW s \in Subs, InsertWebhookSubscription(s) PROVE WebhookInv'
  <1>1. /\ sub[s] = "absent" /\ sub' = [sub EXCEPT ![s] = "enabled"]
        /\ UNCHANGED <<ev, older, st, due, live, attempts, worker, fan, dis, lapses, forced, faults, disables, answered, late>>
    BY DEF InsertWebhookSubscription, history
  <1>2. /\ sub' \in [Subs -> {"absent", "enabled", "disabled"}]
        /\ \A t \in Subs : sub[t] # "absent" => sub'[t] = sub[t]
    BY <1>1 DEF WebhookInv, FansInv, FanTypes
  <1>3. CountTypes'
    BY <1>1 DEF WebhookInv, RowsInv, CountTypes
  <1>4. RowsInv'
    BY <1>1, <1>3, RowsKept
  <1>5. FansInv'
    BY <1>1, <1>2, FansKept
  <1>6. WorkersInv'
    BY <1>1, <1>2, WorkersKept DEF RowKept
  <1>7. DisablesInv'
    BY <1>1, SameRowsSameDisables
  <1>8. MeetInv'
    BY <1>1, <1>2, MeetKept
  <1>9. QED
    BY <1>4, <1>5, <1>6, <1>7, <1>8 DEF WebhookInv

(* A new event keeps the invariant.                                         *)
LEMMA EventKeeps == ASSUME WebhookInv, NEW e \in Events, InsertEvent(e) PROVE WebhookInv'
  <1>1. /\ ev[e] = "absent" /\ ev' = [ev EXCEPT ![e] = "pending"]
        /\ older' = [older EXCEPT ![e] = {s \in Subs : sub[s] # "absent"}]
        /\ UNCHANGED <<sub, st, due, live, attempts, worker, fan, dis, lapses, forced, faults, disables, answered, late>>
    BY DEF InsertEvent, history
  <1>2. CountTypes'
    BY <1>1 DEF WebhookInv, RowsInv, CountTypes
  <1>3. RowsInv'
    BY <1>1, <1>2, RowsKept
  <1>4. WorkersInv'
    BY <1>1, WorkersKept DEF RowKept
  <1>5. DisablesInv'
    BY <1>1, SameRowsSameDisables
  <1>6. FanTypes'
    BY <1>1 DEF WebhookInv, FansInv, FanTypes
  <1>7. /\ \A x \in Events \ {e} : ev'[x] = ev[x] /\ older'[x] = older[x] /\ Matching(x)' = Matching(x)
        /\ ev'[e] = "pending" /\ older'[e] = {s \in Subs : sub[s] # "absent"}
    BY <1>1 DEF WebhookInv, FansInv, FanTypes, Matching
  <1>8. \A x \in Events : EventOK(x)'
    BY <1>1, <1>7 DEF WebhookInv, FansInv, EventOK
  <1>9. \A f \in FanOuts : fan[f].batch \subseteq Events \ {e} /\ DOMAIN fan[f].matched \subseteq Events \ {e}
    BY <1>1 DEF WebhookInv, FansInv, FanTypes, FanFacts
  <1>10. \A f \in FanOuts : FanFacts(fan[f])'
    BY <1>1, <1>7, <1>9 DEF WebhookInv, FansInv, FanFacts
  <1>11. FanOutIsComplete'
    BY <1>1, <1>7 DEF WebhookInv, FansInv, FanOutIsComplete
  <1>12. MeetInv'
    BY <1>1, MeetKept
  <1>13. QED
    BY <1>3, <1>4, <1>5, <1>6, <1>8, <1>10, <1>11, <1>12 DEF WebhookInv, FansInv

(* A retry that comes due and a lease that expires keep the invariant.      *)
LEMMA ClockKeeps ==
  ASSUME WebhookInv, NEW d \in Deliveries, ComesDue(d) \/ LeaseExpires(d) PROVE WebhookInv'
  <1>1. UNCHANGED <<sub, ev, older, st, attempts, worker, fan, dis, answered, faults, disables, late>>
    BY DEF ComesDue, LeaseExpires, history
  <1>2. \A x \in Deliveries : (live'[x] => live[x]) /\ (x # d => live'[x] = live[x] /\ lapses'[x] = lapses[x])
    BY DEF ComesDue, LeaseExpires, history, WebhookInv, RowsInv, RowTypes
  <1>3. RowTypes' /\ CountTypes'
    <2>1. due' \in [Deliveries -> BOOLEAN] /\ live' \in [Deliveries -> BOOLEAN]
      BY DEF ComesDue, LeaseExpires, WebhookInv, RowsInv, RowTypes
    <2>2. lapses' \in [Deliveries -> Nat] /\ forced' \in Nat
      <3>1. lapses \in [Deliveries -> Nat] /\ lapses[d] + 1 \in Nat /\ forced \in Nat
        BY DEF WebhookInv, RowsInv, RowTypes, CountTypes
      <3>2. lapses' = lapses \/ lapses' = [lapses EXCEPT ![d] = lapses[d] + 1]
        BY DEF ComesDue, LeaseExpires, history
      <3>3. forced' = forced \/ forced' = forced + 1
        BY DEF ComesDue, LeaseExpires, history
      <3>4. QED
        BY <3>1, <3>2, <3>3
    <2>3. QED
      BY <1>1, <2>1, <2>2 DEF WebhookInv, RowsInv, RowTypes, CountTypes
  <1>4. RowOK(d)'
    <2>1. RowOK(d) /\ Last(d) \in Nat /\ lapses[d] \in Nat
      BY DEF WebhookInv, RowsInv, RowTypes, Last
    <2>2. CASE ComesDue(d)
      <3>1. SameRow(d)
        BY <2>2 DEF ComesDue, SameRow, history
      <3>2. QED
        BY <1>1, <2>1, <3>1, SameRowKeeps
    <2>3. CASE LeaseExpires(d)
      <3>1. st[d] = "delivering" /\ lapses'[d] = lapses[d] + 1 /\ attempts'[d] = attempts[d] /\ st'[d] = st[d]
        BY <2>3 DEF LeaseExpires, WebhookInv, RowsInv, RowTypes
      <3>2. QED
        BY <1>1, <2>1, <3>1, WebhooksAssumption DEF RowOK, Last, Open
    <2>4. QED
      BY <2>2, <2>3
  <1>5. ASSUME st'[d] = "delivering", live'[d] PROVE ~ActiveBeside(d)
    BY <1>1, <1>2, <1>5 DEF WebhookInv, RowsInv, OneActivePerTenant
  <1>6. \A x \in Deliveries \ {d} : SameRow(x)
    BY <1>1, <1>2 DEF SameRow
  <1>7. RowsInv'
    BY <1>1, <1>3, <1>4, <1>5, <1>6, RowMoves
  <1>8. WorkersInv'
    BY <1>1, <1>2, WorkersKept DEF RowKept
  <1>9. DisablesInv'
    BY <1>1, SameRowsSameDisables
  <1>10. FansInv'
    BY <1>1, FansKept DEF WebhookInv, FansInv, FanTypes
  <1>11. MeetInv'
    BY <1>1, MeetKept
  <1>12. QED
    BY <1>7, <1>8, <1>9, <1>10, <1>11 DEF WebhookInv

(* The rows a fan-out adds. *)
LEMMA FanOutKeeps == ASSUME WebhookInv, NEW f \in FanOuts, FanOutCommit(f) PROVE WebhookInv'
  <1> DEFINE batch == fan[f].batch
             new == {d \in Deliveries : d[2] \in batch /\ d[1] \in fan[f].matched[d[2]] /\ st[d] = "none"}
  <1>1. /\ batch # {} /\ DOMAIN fan[f].matched = batch
        /\ st' = [d \in Deliveries |-> IF d \in new THEN "pending" ELSE st[d]]
        /\ due' = [d \in Deliveries |-> d \in new \/ due[d]]
        /\ ev' = [e \in Events |-> IF e \in batch THEN "fanned" ELSE ev[e]]
        /\ fan' = [fan EXCEPT ![f] = NoFan]
        /\ UNCHANGED <<sub, older, live, attempts, worker, dis, lapses, forced, faults, disables, answered, late>>
    BY DEF FanOutCommit, history
  <1>2. \A d \in Deliveries : \/ d \notin new /\ SameRow(d)
                              \/ d \in new /\ st[d] = "none" /\ st'[d] = "pending"
    BY <1>1 DEF SameRow
  <1>3. new \subseteq Deliveries
    OBVIOUS
  <1> HIDE DEF new
  <1>5. RowTypes' /\ CountTypes'
    <2>1. st' \in [Deliveries -> Statuses]
      BY <1>1 DEF WebhookInv, RowsInv, RowTypes, Statuses
    <2>2. due' \in [Deliveries -> BOOLEAN]
      BY <1>1
    <2>3. QED
      BY <1>1, <2>1, <2>2 DEF WebhookInv, RowsInv, RowTypes, CountTypes
  <1>6. ASSUME NEW d \in Deliveries PROVE RowOK(d)'
    <2>1. RowOK(d) /\ lapses[d] \in Nat
      BY DEF WebhookInv, RowsInv, RowTypes
    <2>2. CASE SameRow(d)
      BY <1>1, <2>1, <2>2, SameRowKeeps
    <2>3. CASE st[d] = "none" /\ st'[d] = "pending"
      <3>1. Last(d) = 0 /\ Last(d)' = 0
        BY <1>1, <2>1, <2>3 DEF RowOK, Last
      <3>2. QED
        BY <1>1, <2>1, <2>3, <3>1, WebhooksAssumption DEF RowOK
    <2>4. QED
      BY <1>2, <2>2, <2>3
  <1>7. \A d \in Deliveries : st'[d] = "delivering" => st[d] = "delivering"
    BY <1>2 DEF SameRow
  <1>8. OneActivePerTenant'
    BY <1>1, <1>7 DEF WebhookInv, RowsInv, OneActivePerTenant, ActiveBeside
  <1>9. RowsInv'
    BY <1>5, <1>6, <1>8 DEF RowsInv
  <1>10. ASSUME NEW w \in Workers PROVE WorkerFacts(worker[w])'
    <2>1. WorkerFacts(worker[w]) /\ worker'[w] = worker[w]
      BY <1>1 DEF WebhookInv, WorkersInv
    <2>2. worker[w].pc \in Locking => worker[w].d \in Deliveries /\ st[worker[w].d] # "none"
      BY <2>1 DEF WorkerFacts, Locking, Free
    <2>3. worker[w].pc \in Locking => RowKept(worker[w].d)
      BY <1>1, <1>2, <2>2 DEF SameRow, RowKept
    <2>4. \A d \in Deliveries : (worker[w].pc = "claiming" /\ worker[w].d = d) => ~ActiveBeside(d)'
      BY <1>1, <1>7, <2>1 DEF WorkerFacts, ActiveBeside
    <2>5. QED
      BY <1>1, <2>1, <2>3, <2>4, OtherWorker
  <1>11. WorkersInv'
    BY <1>1, <1>10 DEF WebhookInv, WorkersInv
  <1>12. DisablesInv'
    <2>1. ASSUME NEW s \in Subs, NEW a \in dis[s].closing PROVE HeldAttempt(s, a)'
      <3>1. a[1] \in Deliveries /\ HeldAttempt(s, a)
        BY <2>1 DEF WebhookInv, DisablesInv, DisableRecord, DisableFacts
      <3>2. QED
        BY <1>1, <1>2, <3>1 DEF SameRow, HeldAttempt, Last
    <2>2. ASSUME NEW s \in Subs, NEW x \in dis[s].locked PROVE HeldDelivery(s, x)'
      <3>1. x \in Deliveries /\ HeldDelivery(s, x)
        BY <2>2 DEF WebhookInv, DisablesInv, DisableRecord, DisableFacts
      <3>2. QED
        BY <1>1, <1>2, <3>1 DEF SameRow, HeldDelivery
    <2>3. QED
      BY <1>1, <2>1, <2>2 DEF WebhookInv, DisablesInv, DisableFacts
  <1>13. FansInv'
    <2>0. NoFan.batch = {} /\ DOMAIN NoFan.matched = {} /\ NoFan = [batch |-> NoFan.batch, matched |-> NoFan.matched]
      BY DEF NoFan
    <2>1. \A g \in FanOuts : fan'[g] = fan[g] \/ fan'[g] = NoFan
      BY <1>1 DEF WebhookInv, FansInv, FanTypes
    <2>2. fan' = [g \in FanOuts |-> [batch |-> fan'[g].batch, matched |-> fan'[g].matched]]
      <3>1. fan' = [g \in FanOuts |-> fan'[g]]
        BY <1>1 DEF WebhookInv, FansInv, FanTypes
      <3>2. \A g \in FanOuts : fan[g] = [batch |-> fan[g].batch, matched |-> fan[g].matched]
        BY DEF WebhookInv, FansInv, FanTypes
      <3>3. \A g \in FanOuts : fan'[g] = [batch |-> fan'[g].batch, matched |-> fan'[g].matched]
        BY <2>0, <2>1, <3>2
      <3>4. QED
        BY <3>1, <3>3
    <2>3. ev' \in [Events -> {"absent", "pending", "fanned"}]
      BY <1>1 DEF WebhookInv, FansInv, FanTypes
    <2>4. FanTypes'
      BY <1>1, <2>0, <2>1, <2>2, <2>3 DEF WebhookInv, FansInv, FanTypes
    <2>5. \A e \in Events : Matching(e)' = Matching(e) /\ (ev[e] # "absent" => ev'[e] # "absent")
                                                       /\ (ev'[e] = "absent" => ev[e] = "absent")
      BY <1>1 DEF Matching
    <2>6. \A e \in Events : EventOK(e)'
      BY <1>1, <2>5 DEF WebhookInv, FansInv, EventOK
    <2>7. ASSUME NEW g \in FanOuts PROVE FanFacts(fan[g])'
      <3>1. CASE fan'[g] = fan[g]
        BY <2>5, <3>1 DEF WebhookInv, FansInv, FanTypes, FanFacts
      <3>2. CASE fan'[g] = NoFan
        BY <2>0, <3>2 DEF FanFacts
      <3>3. QED
        BY <2>1, <3>1, <3>2
    <2>8. ASSUME NEW e \in Events, ev'[e] = "fanned", NEW s \in Matching(e) PROVE st'[<<s, e>>] # "none"
      <3>1. <<s, e>> \in Deliveries /\ <<s, e>>[1] = s /\ <<s, e>>[2] = e
        BY DEF Matching, Deliveries
      <3>2. CASE e \in batch
        <4>1. s \in fan[f].matched[e]
          BY <1>1, <3>2 DEF WebhookInv, FansInv, FanFacts
        <4>2. QED
          BY <1>2, <3>1, <3>2, <4>1 DEF SameRow, new
      <3>3. CASE e \notin batch
        <4>1. st[<<s, e>>] # "none"
          BY <1>1, <2>8, <3>3 DEF WebhookInv, FansInv, FanOutIsComplete
        <4>2. QED
          BY <1>2, <3>1, <4>1 DEF SameRow
      <3>4. QED
        BY <3>2, <3>3
    <2>9. FanOutIsComplete'
      BY <2>5, <2>8 DEF FanOutIsComplete
    <2>10. QED
      BY <2>4, <2>6, <2>7, <2>9 DEF FansInv
  <1>14. MeetInv'
    BY <1>1, MeetKept
  <1>15. QED
    BY <1>9, <1>11, <1>12, <1>13, <1>14 DEF WebhookInv

(* A claim opens the next attempt, having closed one that its lease left. *)
LEMMA ClaimKeeps == ASSUME WebhookInv, NEW w \in Workers, ClaimCommit(w) PROVE WebhookInv'
  <1>1. PICK d : d = worker[w].d
    OBVIOUS
  <1>2. worker[w] \in WorkerRecord /\ WorkerFacts(worker[w]) /\ worker[w].pc = "claiming"
    BY DEF WebhookInv, WorkersInv, ClaimCommit
  <1>3. d \in Deliveries /\ Free(d) /\ ~ActiveBeside(d) /\ d \notin dis[d[1]].locked
    <2>1. Meets(worker[w])
      BY DEF WebhookInv, MeetInv
    <2>2. QED
      BY <1>1, <1>2, <2>1 DEF WorkerFacts, Meets, Locking
  <1>4. PICK h : h = IF st[d] = "delivering" THEN CloseAttempt(attempts[d], Len(attempts[d]), "retrying") ELSE attempts[d]
    OBVIOUS
  <1>5. /\ st[d] = "delivering" => ~AttemptLocked(d)
        /\ st' = [st EXCEPT ![d] = "delivering"] /\ live' = [live EXCEPT ![d] = TRUE]
        /\ attempts' = [attempts EXCEPT ![d] = Append(h, "in_progress")]
        /\ worker' = [worker EXCEPT ![w] = [Idle EXCEPT !.pc = "posting", !.d = d, !.n = Len(attempts[d]) + 1]]
        /\ late' = (IF sub[d[1]] = "disabled" THEN late \cup {d} ELSE late)
        /\ UNCHANGED <<sub, ev, older, due, fan, dis, lapses, forced, faults, disables, answered>>
    BY <1>1, <1>4 DEF ClaimCommit
  <1>6. attempts[d] \in Seq(AttemptStatuses) /\ RowOK(d) /\ lapses[d] \in Nat /\ Last(d) \in Nat
    BY <1>3 DEF WebhookInv, RowsInv, RowTypes, Last
  <1>7. /\ h \in Seq(AttemptStatuses) /\ Len(h) = Last(d)
        /\ \A i \in 1..Last(d) : h[i] = "retrying"
    <2>1. CASE st[d] = "delivering"
      <3>1. "retrying" \in AttemptStatuses /\ h = CloseAttempt(attempts[d], Len(attempts[d]), "retrying")
        BY <1>4, <2>1 DEF AttemptStatuses
      <3>2. /\ h \in Seq(AttemptStatuses) /\ Len(h) = Len(attempts[d])
            /\ \A i \in DOMAIN attempts[d] : h[i] = (IF i = Len(attempts[d]) /\ attempts[d][i] = "in_progress" THEN "retrying" ELSE attempts[d][i])
        BY <1>6, <3>1, Closes
      <3>3. /\ \A i \in 1..(Last(d) - 1) : attempts[d][i] = "retrying"
            /\ attempts[d][Last(d)] = "in_progress"
        BY <1>6, <2>1 DEF RowOK, Open
      <3>4. QED
        BY <1>6, <3>2, <3>3 DEF Last
    <2>2. CASE st[d] = "pending"
      BY <1>4, <1>6, <2>2 DEF RowOK, Last
    <2>3. QED
      BY <1>3, <2>1, <2>2 DEF Free
  <1>8. PICK g : g = Append(h, "in_progress")
    OBVIOUS
  <1>9. /\ g \in Seq(AttemptStatuses) /\ Len(g) = Last(d) + 1 /\ g[Len(g)] = "in_progress"
        /\ \A i \in 1..(Len(g) - 1) : g[i] = "retrying"
    BY <1>6, <1>7, <1>8 DEF AttemptStatuses
  <1>10. st'[d] = "delivering" /\ attempts'[d] = g /\ live'[d] = TRUE /\ lapses'[d] = lapses[d]
    BY <1>3, <1>5, <1>8 DEF WebhookInv, RowsInv, RowTypes
  <1>11. Last(d) < MaxAttempts + lapses[d]
    BY <1>3, <1>6 DEF RowOK, Free
  <1>12. RowOK(d)'
    <2>1. Last(d)' = Last(d) + 1
      BY <1>9, <1>10 DEF Last
    <2>2. QED
      BY <1>6, <1>9, <1>10, <1>11, <2>1, WebhooksAssumption DEF RowOK, Open
  <1>13. RowTypes' /\ CountTypes'
    <2>1. st' \in [Deliveries -> Statuses] /\ attempts' \in [Deliveries -> Seq(AttemptStatuses)]
      BY <1>5, <1>8, <1>9 DEF WebhookInv, RowsInv, RowTypes, Statuses
    <2>2. live' \in [Deliveries -> BOOLEAN]
      BY <1>5 DEF WebhookInv, RowsInv, RowTypes
    <2>3. QED
      BY <1>3, <1>5, <2>1, <2>2 DEF WebhookInv, RowsInv, RowTypes, CountTypes
  <1>14. \A x \in Deliveries \ {d} : SameRow(x) /\ RowKept(x)
    BY <1>5 DEF SameRow, RowKept, WebhookInv, RowsInv, RowTypes
  <1>15. RowsInv'
    BY <1>3, <1>5, <1>12, <1>13, <1>14, RowMoves
  <1>16. DisablesInv'
    <2>1. CASE st[d] = "delivering"
      BY <1>3, <1>5, <1>14, <2>1, DisablesKept
    <2>2. CASE st[d] # "delivering"
      <3>1. ~AttemptLocked(d)
        BY <1>3, <2>2, DeliveryPair DEF AttemptLocked, WebhookInv, DisablesInv, DisableFacts, HeldAttempt
      <3>2. QED
        BY <1>3, <1>5, <1>14, <3>1, DisablesKept
    <2>3. QED
      BY <2>1, <2>2
  <1>17. FansInv'
    <2>1. \A x \in Deliveries : st[x] # "none" => st'[x] # "none"
      BY <1>10, <1>14 DEF SameRow
    <2>2. QED
      BY <1>5, <2>1, FansKept DEF WebhookInv, FansInv, FanTypes
  <1>18. ASSUME NEW v \in Workers \ {w} PROVE WorkerFacts(worker[v])'
    <2>1. WorkerFacts(worker[v]) /\ Apart(worker[v], worker[w]) /\ worker'[v] = worker[v]
      BY <1>5 DEF WebhookInv, WorkersInv
    <2>2. worker[v].pc \in Locking => worker[v].d \in Deliveries \ {d}
      BY <1>1, <1>2, <2>1 DEF WorkerFacts, Apart, Locking
    <2>3. worker[v].pc = "claiming" => ~ActiveBeside(worker[v].d) /\ Tenant(worker[v].d) # Tenant(d)
      BY <1>1, <1>2, <2>1 DEF WorkerFacts, Apart
    <2>4. \A x \in Deliveries : (worker[v].pc = "claiming" /\ worker[v].d = x) => ~ActiveBeside(x)'
      BY <1>14, <2>3 DEF ActiveBeside, SameRow
    <2>5. QED
      BY <1>5, <1>14, <2>1, <2>2, <2>4, OtherWorker
  <1>19. WorkersInv'
    <2>1. PICK r : r = [Idle EXCEPT !.pc = "posting", !.d = d, !.n = Len(attempts[d]) + 1]
      OBVIOUS
    <2>2. Len(attempts[d]) + 1 \in Nat
      BY <1>6
    <2>3. r \in WorkerRecord /\ r.pc = "posting" /\ r.d = d
      BY <1>3, <2>1, <2>2 DEF Idle, WorkerRecord
    <2>4. WorkerFacts(r)'
      BY <1>3, <2>3 DEF WorkerFacts
    <2>5. worker' = [worker EXCEPT ![w] = r]
      BY <1>5, <2>1
    <2>6. \A v \in Workers \ {w} : Apart(worker[v], r) /\ Apart(r, worker[v])
      BY <2>3 DEF Apart, Locking
    <2>7. QED
      BY <1>18, <2>3, <2>4, <2>5, <2>6, WorkersMove
  <1>20. MeetInv'
    <2>1. ASSUME NEW v \in Workers PROVE Meets(worker[v])'
      <3>1. CASE v = w
        <4>1. worker'[v].pc = "posting"
          BY <1>5, <3>1 DEF Idle, WebhookInv, WorkersInv
        <4>2. QED
          BY <4>1 DEF Meets, Locking
      <3>2. CASE v # w
        <4>1. Meets(worker[v]) /\ Apart(worker[v], worker[w]) /\ worker'[v] = worker[v]
          BY <1>5, <3>2 DEF WebhookInv, WorkersInv, MeetInv
        <4>2. worker[v].pc \in {"selected", "claiming"} => worker[v].d # d
          BY <1>1, <1>2, <4>1 DEF Apart, Locking
        <4>3. dis' = dis /\ \A x : x \in late' => x \in late \/ x = d
          BY <1>5
        <4>4. QED
          BY <4>1, <4>2, <4>3, Zenon DEF Meets
      <3>3. QED
        BY <3>1, <3>2
    <2>2. \A x \in late' : sub'[x[1]] = "disabled"
      BY <1>5 DEF WebhookInv, MeetInv
    <2>3. QED
      BY <2>1, <2>2 DEF MeetInv
  <1>21. QED
    BY <1>15, <1>16, <1>17, <1>19, <1>20 DEF WebhookInv

(* A completion closes the attempt of its claim, which is open. *)
LEMMA CompleteKeeps == ASSUME WebhookInv, NEW w \in Workers, CompleteCommit(w) PROVE WebhookInv'
  <1>1. PICK d, n, res : d = worker[w].d /\ n = worker[w].n /\ res = worker[w].res
    OBVIOUS
  <1>2. worker[w] \in WorkerRecord /\ WorkerFacts(worker[w]) /\ worker[w].pc = "closing" /\ n \in Nat
    BY <1>1 DEF WebhookInv, WorkersInv, CompleteCommit, WorkerRecord
  <1>3. /\ d \in Deliveries /\ st[d] = "delivering" /\ Last(d) = n /\ res \in Outcomes
        /\ (res = "succeeded" => <<d, n>> \in answered) /\ (res = "retrying" => n < MaxAttempts)
    BY <1>1, <1>2 DEF WorkerFacts
  <1>4. attempts[d] \in Seq(AttemptStatuses) /\ RowOK(d) /\ lapses[d] \in Nat /\ n > 0 /\ attempts[d][n] = "in_progress"
    BY <1>2, <1>3 DEF WebhookInv, RowsInv, RowTypes, RowOK, Open
  <1>5. n \in DOMAIN attempts[d]
    BY <1>2, <1>3, <1>4 DEF Last
  <1>6. PICK g : g = CloseAttempt(attempts[d], n, res)
    OBVIOUS
  <1>7. /\ ~AttemptLocked(d) /\ attempts' = [attempts EXCEPT ![d] = g]
        /\ st' = [st EXCEPT ![d] = Transition(res)]
        /\ due' = [due EXCEPT ![d] = FALSE] /\ live' = [live EXCEPT ![d] = FALSE]
        /\ worker' = [worker EXCEPT ![w] = Idle]
        /\ UNCHANGED <<sub, ev, older, fan, dis, lapses, forced, faults, disables, answered, late>>
    BY <1>1, <1>4, <1>5, <1>6 DEF CompleteCommit, history
  <1>8. res \in AttemptStatuses
    BY <1>3 DEF Outcomes, AttemptStatuses
  <1>9. /\ g \in Seq(AttemptStatuses) /\ Len(g) = n /\ g[n] = res
        /\ \A i \in 1..(n - 1) : g[i] = "retrying"
    <2>1. /\ g \in Seq(AttemptStatuses) /\ Len(g) = Len(attempts[d])
          /\ \A i \in DOMAIN attempts[d] : g[i] = (IF i = n /\ attempts[d][i] = "in_progress" THEN res ELSE attempts[d][i])
      BY <1>4, <1>6, <1>8, Closes
    <2>2. \A i \in 1..(n - 1) : i \in DOMAIN attempts[d] /\ attempts[d][i] = "retrying"
      BY <1>2, <1>3, <1>4 DEF RowOK, Last
    <2>3. QED
      BY <1>2, <1>3, <1>4, <1>5, <2>1, <2>2 DEF Last
  <1>10. st'[d] = Transition(res) /\ attempts'[d] = g /\ live'[d] = FALSE /\ lapses'[d] = lapses[d]
    BY <1>3, <1>7 DEF WebhookInv, RowsInv, RowTypes
  <1>11. Transition(res) \in Statuses \ {"none", "delivering", "cancelled"}
         /\ (Transition(res) = "pending" <=> res = "retrying") /\ (res # "retrying" => Transition(res) = res)
    BY <1>3 DEF Transition, Statuses, Outcomes
  <1>12. RowOK(d)'
    <2>1. Last(d)' = n
      BY <1>9, <1>10 DEF Last
    <2>2. n <= MaxAttempts + lapses[d]
      BY <1>3, <1>4 DEF RowOK
    <2>3. res # "in_progress"
      BY <1>3 DEF Outcomes
    <2>4. QED
      BY <1>2, <1>3, <1>4, <1>7, <1>9, <1>10, <1>11, <2>1, <2>2, <2>3, WebhooksAssumption DEF RowOK, Open
  <1>13. RowTypes' /\ CountTypes'
    <2>1. st' \in [Deliveries -> Statuses] /\ attempts' \in [Deliveries -> Seq(AttemptStatuses)]
      BY <1>7, <1>9, <1>11 DEF WebhookInv, RowsInv, RowTypes
    <2>2. live' \in [Deliveries -> BOOLEAN] /\ due' \in [Deliveries -> BOOLEAN]
      BY <1>7 DEF WebhookInv, RowsInv, RowTypes
    <2>3. QED
      BY <1>7, <2>1, <2>2 DEF WebhookInv, RowsInv, RowTypes, CountTypes
  <1>14. \A x \in Deliveries \ {d} : SameRow(x) /\ RowKept(x)
    BY <1>7 DEF SameRow, RowKept, WebhookInv, RowsInv, RowTypes
  <1>15. RowsInv'
    BY <1>3, <1>7, <1>10, <1>12, <1>13, <1>14, RowMoves
  <1>16. DisablesInv'
    <2>1. Meets(worker[w])
      BY DEF WebhookInv, MeetInv
    <2>2. d \notin dis[d[1]].locked
      BY <1>1, <1>2, <2>1 DEF Meets, Locking
    <2>3. QED
      BY <1>3, <1>7, <1>14, <2>2, DisablesKept
  <1>17. FansInv'
    <2>1. \A x \in Deliveries : st[x] # "none" => st'[x] # "none"
      BY <1>10, <1>11, <1>14 DEF SameRow
    <2>2. QED
      BY <1>7, <2>1, FansKept DEF WebhookInv, FansInv, FanTypes
  <1>18. ASSUME NEW v \in Workers \ {w} PROVE WorkerFacts(worker[v])'
    <2>1. WorkerFacts(worker[v]) /\ Apart(worker[v], worker[w]) /\ worker'[v] = worker[v]
      BY <1>7 DEF WebhookInv, WorkersInv
    <2>2. worker[v].pc \in Locking => worker[v].d \in Deliveries \ {d}
      BY <1>1, <1>2, <2>1 DEF WorkerFacts, Apart, Locking
    <2>3. \A x \in Deliveries : (worker[v].pc = "claiming" /\ worker[v].d = x) => ~ActiveBeside(x)'
      BY <1>10, <1>14, <2>1 DEF WorkerFacts, ActiveBeside, SameRow
    <2>4. QED
      BY <1>7, <1>14, <2>1, <2>2, <2>3, OtherWorker
  <1>19. WorkersInv'
    <2>1. PICK r : r = Idle
      OBVIOUS
    <2>2. r \in WorkerRecord /\ r.pc = "idle" /\ worker' = [worker EXCEPT ![w] = r]
      BY <1>7, <2>1, IdleWorker
    <2>3. WorkerFacts(r)'
      BY <2>2 DEF WorkerFacts
    <2>4. QED
      BY <1>18, <2>2, <2>3, IdleIsApart, WorkersMove
  <1>20. MeetInv'
    <2>1. PICK r : r = Idle
      OBVIOUS
    <2>2. Meets(r) /\ worker' = [worker EXCEPT ![w] = r]
      BY <1>7, <2>1, IdleWorker DEF Meets, Locking
    <2>3. QED
      BY <1>7, <2>2, MeetMoves
  <1>21. QED
    BY <1>15, <1>16, <1>17, <1>19, <1>20 DEF WebhookInv

(* A Disable cancels what is unfinished and closes the attempts it holds;   *)
(* no transaction of a worker holds one of those deliveries.                *)
LEMMA AttemptsHeld ==
  ASSUME WebhookInv, NEW s \in Subs, dis[s].pc = "cancelling", dis[s].targets = {},
         NEW d \in Deliveries, NEW i, <<d, i>> \in dis[s].closing
  PROVE  d \in dis[s].locked /\ st[d] = "delivering" /\ i = Last(d)
  <1>1. \A a \in dis[s].closing : HeldAttempt(s, a) /\ a[1] \in dis[s].locked
    BY DEF WebhookInv, DisablesInv, DisableFacts
  <1>2. <<d, i>>[1] = d /\ <<d, i>>[2] = i
    OBVIOUS
  <1>3. QED
    BY <1>1, <1>2 DEF HeldAttempt

(* The commit of a disable keeps the invariant.                             *)
LEMMA DisableKeeps == ASSUME WebhookInv, NEW s \in Subs, DisableCommit(s) PROVE WebhookInv'
  <1>1. PICK C : C = dis[s].locked
    OBVIOUS
  <1>2. /\ dis[s].pc = "cancelling" /\ dis[s].targets = {}
        /\ sub' = [sub EXCEPT ![s] = "disabled"]
        /\ attempts' = [d \in Deliveries |-> [i \in DOMAIN attempts[d] |->
                          IF <<d, i>> \in dis[s].closing THEN "failed" ELSE attempts[d][i]]]
        /\ st' = [d \in Deliveries |-> IF d \in C THEN "cancelled" ELSE st[d]]
        /\ live' = [d \in Deliveries |-> live[d] /\ d \notin C]
        /\ dis' = [dis EXCEPT ![s] = NoDisable]
        /\ UNCHANGED <<ev, older, due, worker, fan, lapses, forced, faults, disables, answered, late>>
    BY <1>1 DEF DisableCommit, history
  <1>3. \A d \in C : d \in Deliveries /\ d[1] = s /\ st[d] \in {"pending", "delivering"}
    BY <1>1 DEF WebhookInv, DisablesInv, DisableRecord, DisableFacts, HeldDelivery
  <1>4. ASSUME NEW d \in Deliveries
        PROVE  /\ attempts'[d] \in Seq(AttemptStatuses) /\ Len(attempts'[d]) = Last(d)
               /\ \A i \in 1..(Last(d) - 1) : attempts'[d][i] = attempts[d][i]
               /\ d \notin C => attempts'[d] = attempts[d]
    <2>1. attempts[d] \in Seq(AttemptStatuses) /\ DOMAIN attempts[d] = 1..Last(d) /\ Last(d) \in Nat
      BY DEF WebhookInv, RowsInv, RowTypes, Last
    <2>2. PICK g : g = attempts'[d]
      OBVIOUS
    <2>3. g = [i \in DOMAIN attempts[d] |-> IF <<d, i>> \in dis[s].closing THEN "failed" ELSE attempts[d][i]]
      BY <1>2, <2>2
    <2>4. \A i \in DOMAIN attempts[d] : g[i] \in AttemptStatuses /\ (i # Last(d) \/ d \notin C => g[i] = attempts[d][i])
      <3>1. \A i : <<d, i>> \in dis[s].closing => d \in C /\ i = Last(d)
        BY <1>1, <1>2, AttemptsHeld
      <3>2. \A i \in DOMAIN attempts[d] : attempts[d][i] \in AttemptStatuses
        BY <2>1
      <3>3. QED
        BY <2>3, <3>1, <3>2 DEF AttemptStatuses
    <2>5. g = [i \in DOMAIN attempts[d] |-> g[i]]
      BY <2>3
    <2>6. g \in Seq(AttemptStatuses) /\ Len(g) = Len(attempts[d]) /\ DOMAIN g = DOMAIN attempts[d]
      BY <2>1, <2>4, <2>5, Rewritten
    <2>7. d \notin C => g = attempts[d]
      BY <2>1, <2>4, <2>6
    <2>8. QED
      BY <2>1, <2>2, <2>4, <2>6, <2>7 DEF Last
  <1>5. ASSUME NEW d \in Deliveries, d \notin C PROVE SameRow(d)
    BY <1>2, <1>4, <1>5 DEF SameRow, WebhookInv, RowsInv, RowTypes
  <1>6. \A d \in C : st'[d] = "cancelled" /\ lapses'[d] = lapses[d]
    BY <1>2, <1>3
  <1>7. RowTypes' /\ CountTypes'
    <2>1. st' \in [Deliveries -> Statuses]
      BY <1>2 DEF WebhookInv, RowsInv, RowTypes, Statuses
    <2>2. live' \in [Deliveries -> BOOLEAN]
      BY <1>2
    <2>3. attempts' \in [Deliveries -> Seq(AttemptStatuses)]
      BY <1>2, <1>4
    <2>4. QED
      BY <1>2, <2>1, <2>2, <2>3 DEF WebhookInv, RowsInv, RowTypes, CountTypes
  <1>8. ASSUME NEW d \in Deliveries PROVE RowOK(d)'
    <2>1. RowOK(d)
      BY DEF WebhookInv, RowsInv
    <2>2. CASE d \notin C
      BY <1>2, <1>5, <2>1, <2>2, SameRowKeeps
    <2>3. CASE d \in C
      <3>1. Last(d)' = Last(d)
        BY <1>4 DEF Last
      <3>2. QED
        BY <1>4, <1>6, <2>1, <2>3, <3>1 DEF RowOK
    <2>4. QED
      BY <2>2, <2>3
  <1>9. \A d \in Deliveries : st'[d] = "delivering" /\ live'[d] => st[d] = "delivering" /\ live[d]
    BY <1>2
  <1>10. OneActivePerTenant' /\ \A d \in Deliveries : ActiveBeside(d)' => ActiveBeside(d)
    BY <1>9 DEF WebhookInv, RowsInv, OneActivePerTenant, ActiveBeside
  <1>11. RowsInv'
    BY <1>7, <1>8, <1>10 DEF RowsInv
  <1>12. ASSUME NEW w \in Workers PROVE WorkerFacts(worker[w])'
    <2>1. PICK r : r = worker[w]
      OBVIOUS
    <2>2. r \in WorkerRecord /\ WorkerFacts(r)
      BY <2>1 DEF WebhookInv, WorkersInv
    <2>3. (r.pc \in Locking => r.d \in Deliveries) /\ Meets(r)
      BY <2>1, <2>2 DEF WorkerFacts, Locking, WebhookInv, MeetInv
    <2>4. r.pc \in Locking => r.d \notin C
      BY <1>1, <1>3, <2>3 DEF Meets
    <2>5. r.pc \in Locking => RowKept(r.d)
      BY <1>5, <2>3, <2>4 DEF SameRow, RowKept
    <2>6. r.pc = "claiming" => ~ActiveBeside(r.d)'
      BY <1>10, <2>2, <2>3 DEF WorkerFacts, Locking
    <2>7. WorkerFacts(r)'
      BY <1>2, <2>2, <2>5, <2>6, WorkerKept DEF Locking
    <2>8. worker'[w] = r
      BY <1>2, <2>1
    <2>9. QED
      BY <2>7, <2>8
  <1>13. WorkersInv'
    BY <1>2, <1>12 DEF WebhookInv, WorkersInv
  <1>14. DisablesInv'
    <2>1. dis' \in [Subs -> DisableRecord] /\ \A t \in Subs : dis'[t] = IF t = s THEN NoDisable ELSE dis[t]
      BY <1>2, NoDisableHolds DEF WebhookInv, DisablesInv
    <2>2. ASSUME NEW t \in Subs, t # s, NEW a \in dis[t].closing PROVE HeldAttempt(t, a)'
      <3>1. a[1] \in Deliveries /\ HeldAttempt(t, a)
        BY <2>2 DEF WebhookInv, DisablesInv, DisableRecord, DisableFacts
      <3>2. a[1] \notin C
        BY <1>3, <2>2, <3>1 DEF HeldAttempt
      <3>3. QED
        BY <1>5, <3>1, <3>2 DEF SameRow, HeldAttempt, Last
    <2>3. ASSUME NEW t \in Subs, t # s, NEW x \in dis[t].locked PROVE HeldDelivery(t, x)'
      <3>1. x \in Deliveries /\ HeldDelivery(t, x)
        BY <2>3 DEF WebhookInv, DisablesInv, DisableRecord, DisableFacts
      <3>2. x \notin C
        BY <1>3, <2>3, <3>1 DEF HeldDelivery
      <3>3. QED
        BY <1>5, <3>1, <3>2 DEF SameRow, HeldDelivery
    <2>4. ASSUME NEW t \in Subs PROVE DisableFacts(t, dis[t])'
      <3>1. CASE t = s
        BY <2>1, <3>1 DEF NoDisable, DisableFacts
      <3>2. CASE t # s
        BY <2>1, <2>2, <2>3, <3>2 DEF WebhookInv, DisablesInv, DisableFacts
      <3>3. QED
        BY <3>1, <3>2
    <2>5. QED
      BY <2>1, <2>4 DEF DisablesInv
  <1>15. FansInv'
    <2>1. /\ sub' \in [Subs -> {"absent", "enabled", "disabled"}]
          /\ \A t \in Subs : sub'[t] = sub[t] \/ sub'[t] = "disabled"
      BY <1>2 DEF WebhookInv, FansInv, FanTypes
    <2>2. \A d \in Deliveries : st[d] # "none" => st'[d] # "none"
      BY <1>2
    <2>3. QED
      BY <1>2, <2>1, <2>2, FansKept
  <1>16. MeetInv'
    <2>1. \A t \in Subs : dis'[t].locked \subseteq dis[t].locked
      BY <1>2 DEF WebhookInv, DisablesInv, NoDisable
    <2>2. \A t \in Subs : sub[t] = "disabled" => sub'[t] = "disabled"
      BY <1>2 DEF WebhookInv, FansInv, FanTypes
    <2>3. QED
      BY <1>2, <2>1, <2>2, MeetKept
  <1>17. QED
    BY <1>11, <1>13, <1>14, <1>15, <1>16 DEF WebhookInv

(* Its other steps do too.                                                  *)
LEMMA DisableStepsKeep ==
  ASSUME WebhookInv, NEW s \in Subs,
         \/ DisableBegin(s) \/ DisableAttempts(s) \/ DisableCancel(s) \/ DisableLock(s) \/ DisableFails(s)
  PROVE  WebhookInv'
  <1>1. dis[s] \in DisableRecord /\ DisableFacts(s, dis[s])
    BY DEF WebhookInv, DisablesInv
  <1>2. UNCHANGED <<tables, worker, fan, lapses, answered, late>> /\ CountTypes'
    BY DEF DisableBegin, DisableAttempts, DisableCancel, DisableLock, DisableFails, history,
       WebhookInv, RowsInv, CountTypes
  <1>3. CASE DisableBegin(s)
    <2>1. dis[s] = NoDisable /\ dis' = [dis EXCEPT ![s].pc = "attempts"]
      BY <1>3 DEF DisableBegin
    <2>2. PICK x : x = [pc |-> "attempts", closing |-> {}, targets |-> {}, locked |-> {}]
      OBVIOUS
    <2>3. x \in DisableRecord /\ DisableFacts(s, x) /\ x.locked = {}
      BY <2>2 DEF DisableRecord, DisableFacts
    <2>4. dis' = [dis EXCEPT ![s] = x]
      <3>1. [dis[s] EXCEPT !.pc = "attempts"] = x
        BY <2>1, <2>2 DEF NoDisable
      <3>2. dis' = [dis EXCEPT ![s] = [dis[s] EXCEPT !.pc = "attempts"]]
        BY <2>1
      <3>3. QED
        BY <3>1, <3>2
    <2>5. QED
      BY <1>2, <2>3, <2>4, OnlyDisableMoves
  <1>4. CASE DisableAttempts(s)
    <2>1. OpenAttempts(s) \in SUBSET (Deliveries \X Nat)
      BY DEF OpenAttempts, AttemptRows, WebhookInv, RowsInv, RowTypes
    <2>2. \A a \in OpenAttempts(s) : HeldAttempt(s, a)
      <3> SUFFICES ASSUME NEW a \in OpenAttempts(s) PROVE HeldAttempt(s, a)
        OBVIOUS
      <3>1. PICK d \in Deliveries : d[1] = s /\ a \in {d} \X DOMAIN attempts[d]
        BY DEF OpenAttempts, AttemptRows
      <3>2. a[1] = d /\ a[2] \in DOMAIN attempts[d] /\ st[d] = "delivering" /\ attempts[d][a[2]] = "in_progress"
        BY <3>1 DEF OpenAttempts
      <3>3. RowOK(d) /\ DOMAIN attempts[d] = 1..Last(d) /\ Last(d) \in Nat
        BY DEF WebhookInv, RowsInv, RowTypes, Last
      <3>4. a[2] = Last(d)
        BY <3>2, <3>3 DEF RowOK
      <3>5. QED
        BY <3>1, <3>2, <3>4 DEF HeldAttempt
    <2>3. PICK x : x = [dis[s] EXCEPT !.pc = "deliveries", !.closing = OpenAttempts(s)]
      OBVIOUS
    <2>4. /\ x \in DisableRecord /\ x.pc = "deliveries" /\ x.closing = OpenAttempts(s)
          /\ x.targets = dis[s].targets /\ x.locked = dis[s].locked /\ dis[s].pc = "attempts"
      BY <1>1, <1>4, <2>1, <2>3 DEF DisableRecord, DisableAttempts
    <2>5. DisableFacts(s, x)
      BY <1>1, <2>2, <2>4 DEF DisableFacts
    <2>6. dis' = [dis EXCEPT ![s] = x]
      BY <1>4, <2>3 DEF DisableAttempts, WebhookInv, DisablesInv
    <2>7. QED
      BY <1>2, <2>4, <2>5, <2>6, OnlyDisableMoves
  <1>5. CASE DisableCancel(s)
    <2>1. PICK x : x = [dis[s] EXCEPT !.pc = "cancelling", !.targets = Unfinished(s)]
      OBVIOUS
    <2>2. /\ x \in DisableRecord /\ x.pc = "cancelling" /\ x.closing = dis[s].closing
          /\ x.targets = Unfinished(s) /\ x.locked = dis[s].locked /\ dis[s].pc = "deliveries"
      BY <1>1, <1>5, <2>1 DEF DisableRecord, DisableCancel, Unfinished
    <2>3. \A a \in x.closing : a[1] \in Unfinished(s)
      BY <1>1, <2>2 DEF DisableFacts, HeldAttempt, DisableRecord, Unfinished
    <2>4. DisableFacts(s, x)
      BY <1>1, <2>2, <2>3 DEF DisableFacts
    <2>5. dis' = [dis EXCEPT ![s] = x]
      BY <1>5, <2>1 DEF DisableCancel, WebhookInv, DisablesInv
    <2>6. QED
      BY <1>2, <2>2, <2>4, <2>5, OnlyDisableMoves
  <1>6. CASE DisableLock(s)
    <2>1. PICK d \in dis[s].targets :
            /\ ~DeliveryLocked(d)
            /\ dis' = [dis EXCEPT ![s].targets = @ \ {d}, ![s].locked = @ \cup ({d} \cap Unfinished(s))]
      BY <1>6 DEF DisableLock
    <2>2. PICK x : x = [dis[s] EXCEPT !.targets = @ \ {d}, !.locked = @ \cup ({d} \cap Unfinished(s))]
      OBVIOUS
    <2>3. /\ x \in DisableRecord /\ x.pc = dis[s].pc /\ x.closing = dis[s].closing
          /\ x.targets = dis[s].targets \ {d} /\ x.locked = dis[s].locked \cup ({d} \cap Unfinished(s))
      BY <1>1, <2>2 DEF DisableRecord, Unfinished
    <2>4. dis' = [dis EXCEPT ![s] = x]
      BY <2>1, <2>2 DEF WebhookInv, DisablesInv
    <2>5. dis[s].pc = "cancelling"
      BY <1>1, <2>1 DEF DisableFacts
    <2>6. \A a \in x.closing : HeldAttempt(s, a) /\ a[1] \in x.targets \cup x.locked
      <3> SUFFICES ASSUME NEW a \in x.closing PROVE HeldAttempt(s, a) /\ a[1] \in x.targets \cup x.locked
        OBVIOUS
      <3>1. HeldAttempt(s, a) /\ a[1] \in dis[s].targets \cup dis[s].locked /\ a[1] \in Deliveries
        BY <1>1, <2>3, <2>5 DEF DisableFacts, DisableRecord
      <3>2. a[1] \in Unfinished(s)
        BY <3>1 DEF HeldAttempt, Unfinished
      <3>3. QED
        BY <2>3, <3>1, <3>2
    <2>7. \A y \in x.locked : HeldDelivery(s, y)
      BY <1>1, <2>3 DEF DisableFacts, HeldDelivery, Unfinished
    <2>8. DisableFacts(s, x)
      BY <2>3, <2>5, <2>6, <2>7 DEF DisableFacts
    <2>9. \A y \in x.locked \ dis[s].locked : ~HeldByWorker(y)
      BY <2>1, <2>3 DEF DeliveryLocked
    <2>10. QED
      BY <1>2, <2>3, <2>4, <2>8, <2>9, OnlyDisableMoves
  <1>7. CASE DisableFails(s)
    BY <1>2, <1>7, NoDisableHolds, OnlyDisableMoves DEF DisableFails
  <1>8. QED
    BY <1>3, <1>4, <1>5, <1>6, <1>7

(* PostgreSQL's choice of a deadlock victim keeps the invariant.            *)
LEMMA AbortKeeps == ASSUME WebhookInv, NEW w \in Workers, DeadlockAborts(w) PROVE WebhookInv'
  <1>1. UNCHANGED <<tables, fan, lapses, answered, late>> /\ CountTypes'
    BY DEF DeadlockAborts, history, WebhookInv, RowsInv, CountTypes
  <1>2. CASE worker' = [worker EXCEPT ![w] = Idle] /\ UNCHANGED dis
    BY <1>1, <1>2, WorkerStops
  <1>3. CASE dis' = [dis EXCEPT ![worker[w].d[1]] = NoDisable] /\ UNCHANGED worker
    <2>1. worker[w].d \in Deliveries
      BY DEF DeadlockAborts, Deadlocked, WebhookInv, WorkersInv, WorkerFacts
    <2>2. worker[w].d[1] \in Subs
      BY <2>1, DeliveryPair
    <2>3. PICK s \in Subs : s = worker[w].d[1]
      BY <2>2
    <2>4. QED
      BY <1>1, <1>3, <2>3, NoDisableHolds, OnlyDisableMoves
  <1>4. QED
    BY <1>2, <1>3 DEF DeadlockAborts

(* Every step keeps the invariant.                                          *)
LEMMA WebhookStep == WebhookInv /\ [Next]_vars => WebhookInv'
  <1> SUFFICES ASSUME WebhookInv, [Next]_vars PROVE WebhookInv'
    OBVIOUS
  <1>1. CASE UNCHANGED vars
    <2>1. UNCHANGED <<sub, ev, older, st, due, live, attempts, worker, fan, dis, lapses, forced, faults, disables, answered, late>>
      BY <1>1 DEF vars, tables, history
    <2>2. RowsInv'
      BY <2>1, RowsKept DEF WebhookInv, RowsInv, CountTypes
    <2>3. WorkersInv'
      BY <2>1, WorkersKept DEF RowKept
    <2>4. MeetInv'
      BY <2>1, MeetKept
    <2>5. QED
      BY <2>1, <2>2, <2>3, <2>4, SameRowsSameDisables, FansKept DEF WebhookInv, FansInv, FanTypes
  <1>2. ASSUME NEW s \in Subs, InsertWebhookSubscription(s) \/ DisableBegin(s) \/ DisableStep(s) \/ DisableFails(s)
        PROVE WebhookInv'
    BY <1>2, SubscribeKeeps, DisableStepsKeep, DisableKeeps DEF DisableStep
  <1>3. ASSUME NEW w \in Workers, ClaimNothing(w) \/ WorkerFails(w) PROVE WebhookInv'
    <2>1. worker' = [worker EXCEPT ![w] = Idle] /\ UNCHANGED <<tables, fan, dis, lapses, answered, late>>
      BY <1>3 DEF ClaimNothing, WorkerFails, history
    <2>2. CountTypes'
      BY <1>3 DEF ClaimNothing, WorkerFails, history, WebhookInv, RowsInv, CountTypes
    <2>3. QED
      BY <2>1, <2>2, WorkerStops
  <1>4. ASSUME NEW w \in Workers, WorkerStep(w) PROVE WebhookInv'
    BY <1>3, <1>4, SelectKeeps, RecheckKeeps, ClaimKeeps, DeliverKeeps, LockKeeps, CompleteKeeps, AbortKeeps DEF WorkerStep
  <1>5. ASSUME NEW f \in FanOuts, FanOutStep(f) \/ FanOutFails(f) PROVE WebhookInv'
    BY <1>5, FanStepsKeep, FanOutKeeps DEF FanOutStep
  <1>6. QED
    BY <1>1, <1>2, <1>3, <1>4, <1>5, EventKeeps, ClockKeeps DEF Next

-----------------------------------------------------------------------------
(* The webhook tables agree in every reachable state (TablesAgree): two      *)
(* claims of one tenant are never active at once although the check and the *)
(* claim are separate statements (ClaimWebhookDelivery); the attempt rows   *)
(* tell what the delivery's status tells and a success was answered by the   *)
(* endpoint, whatever a stale worker reports (CompleteWebhookAttempt);       *)
(* attempts stay within the budget; and an event marked as fanned out missed *)
(* no enabled subscription (FanOutWebhookEvents).                           *)
THEOREM TablesAlwaysAgree == Spec => []TablesAgree
  <1>1. WebhookInv => TablesAgree
    <2> SUFFICES ASSUME WebhookInv PROVE TablesAgree
      OBVIOUS
    <2>1. TypeOK
      BY TypesFollow
    <2>2. ASSUME NEW d \in Deliveries PROVE RowOK(d) /\ Last(d) \in Nat
      BY DEF WebhookInv, RowsInv, RowTypes, Last
    <2>3. AttemptsMatchDelivery
      BY <2>2 DEF AttemptsMatchDelivery, RowOK, Last
    <2>4. SuccessIsReal /\ AttemptsWithinBudget
      BY <2>2 DEF SuccessIsReal, AttemptsWithinBudget, RowOK, Last
    <2>5. QED
      BY <2>1, <2>3, <2>4 DEF TablesAgree, WebhookInv, RowsInv, FansInv
  <1>2. QED
    BY WebhookInit, WebhookStep, <1>1, PTL DEF Spec

-----------------------------------------------------------------------------
(* The step of HistoryIsImmutable, for one delivery. *)
Settled(d) ==
  /\ st[d] \in Final => st'[d] = st[d] /\ Len(attempts'[d]) = Len(attempts[d])
  /\ sub[d[1]] = "disabled" /\ d \in late => Len(attempts'[d]) = Len(attempts[d])
  /\ \A i \in DOMAIN attempts[d] : i \in DOMAIN attempts'[d]
       /\ (~Open(d, i) => attempts'[d][i] = attempts[d][i])

(* A row that stays is settled.                                             *)
LEMMA SameIsSettled == ASSUME NEW d, st'[d] = st[d], attempts'[d] = attempts[d] PROVE Settled(d)
  BY DEF Settled

(* A claim rewrites no outcome and no closed attempt.                       *)
LEMMA ClaimSettles ==
  ASSUME WebhookInv, NEW w \in Workers, ClaimCommit(w), NEW d \in Deliveries PROVE Settled(d)
  <1>1. CASE d # worker[w].d
    BY <1>1, SameIsSettled DEF ClaimCommit, WebhookInv, RowsInv, RowTypes
  <1>2. CASE d = worker[w].d
    <2>1. d \notin late /\ Free(d)
      BY <1>2 DEF ClaimCommit, WebhookInv, WorkersInv, WorkerFacts, MeetInv, Meets
    <2>2. PICK h : h = IF st[d] = "delivering" THEN CloseAttempt(attempts[d], Len(attempts[d]), "retrying") ELSE attempts[d]
      OBVIOUS
    <2>3. attempts[d] \in Seq(AttemptStatuses) /\ "retrying" \in AttemptStatuses /\ "in_progress" \in AttemptStatuses
      BY DEF WebhookInv, RowsInv, RowTypes, AttemptStatuses
    <2>4. /\ h \in Seq(AttemptStatuses) /\ DOMAIN h = DOMAIN attempts[d]
          /\ \A i \in DOMAIN attempts[d] : attempts[d][i] # "in_progress" => h[i] = attempts[d][i]
      BY <2>2, <2>3, Closes
    <2>5. attempts'[d] = Append(h, "in_progress")
      BY <1>2, <2>2 DEF ClaimCommit, WebhookInv, RowsInv, RowTypes
    <2>6. \A i \in DOMAIN h : i \in DOMAIN attempts'[d] /\ attempts'[d][i] = h[i]
      BY <2>3, <2>4, <2>5
    <2>7. QED
      BY <2>1, <2>4, <2>6 DEF Settled, Open, Free, Final
  <1>3. QED
    BY <1>1, <1>2

(* Nor does a completion,                                                   *)
LEMMA CompleteSettles ==
  ASSUME WebhookInv, NEW w \in Workers, CompleteCommit(w), NEW d \in Deliveries PROVE Settled(d)
  <1>1. CASE d # worker[w].d \/ UNCHANGED <<attempts, st>>
    BY <1>1, SameIsSettled, ZenonT(60) DEF CompleteCommit, WebhookInv, RowsInv, RowTypes
  <1>2. CASE d = worker[w].d /\ attempts' = [attempts EXCEPT ![d] = CloseAttempt(attempts[d], worker[w].n, worker[w].res)]
    <2>1. st[d] = "delivering" /\ worker[w].res \in Outcomes
      BY <1>2 DEF CompleteCommit, WebhookInv, WorkersInv, WorkerFacts
    <2>2. worker[w].res \in AttemptStatuses /\ attempts[d] \in Seq(AttemptStatuses)
      BY <2>1 DEF Outcomes, AttemptStatuses, WebhookInv, RowsInv, RowTypes
    <2>3. PICK g : g = CloseAttempt(attempts[d], worker[w].n, worker[w].res)
      OBVIOUS
    <2>4. /\ Len(g) = Len(attempts[d]) /\ DOMAIN g = DOMAIN attempts[d]
          /\ \A i \in DOMAIN attempts[d] : attempts[d][i] # "in_progress" => g[i] = attempts[d][i]
      BY <2>2, <2>3, Closes
    <2>5. attempts'[d] = g
      BY <1>2, <2>3 DEF WebhookInv, RowsInv, RowTypes
    <2>6. QED
      BY <2>1, <2>4, <2>5 DEF Settled, Open, Final
  <1>3. QED
    BY <1>1, <1>2 DEF CompleteCommit

(* nor a disable.                                                           *)
LEMMA DisableSettles ==
  ASSUME WebhookInv, NEW s \in Subs, DisableCommit(s), NEW d \in Deliveries PROVE Settled(d)
  <1>1. /\ attempts'[d] = [i \in DOMAIN attempts[d] |-> IF <<d, i>> \in dis[s].closing THEN "failed" ELSE attempts[d][i]]
        /\ st'[d] = (IF d \in dis[s].locked THEN "cancelled" ELSE st[d])
        /\ dis[s].pc = "cancelling" /\ dis[s].targets = {}
    BY DEF DisableCommit
  <1>2. attempts[d] \in Seq(AttemptStatuses) /\ RowOK(d)
    BY DEF WebhookInv, RowsInv, RowTypes
  <1>3. \A i \in DOMAIN attempts[d] : <<d, i>> \in dis[s].closing => Open(d, i)
    BY <1>1, <1>2, AttemptsHeld DEF RowOK
  <1>4. PICK g : g = attempts'[d]
    OBVIOUS
  <1>5. \A i \in DOMAIN attempts[d] : g[i] \in AttemptStatuses /\ (~Open(d, i) => g[i] = attempts[d][i])
    BY <1>1, <1>2, <1>3, <1>4 DEF AttemptStatuses
  <1>6. g = [i \in DOMAIN attempts[d] |-> g[i]]
    BY <1>1, <1>4
  <1>7. Len(g) = Len(attempts[d]) /\ DOMAIN g = DOMAIN attempts[d]
    BY <1>2, <1>5, <1>6, Rewritten
  <1>8. st[d] \in Final => st'[d] = st[d]
    BY <1>1 DEF Final, WebhookInv, DisablesInv, DisableFacts, HeldDelivery
  <1>9. QED
    BY <1>4, <1>5, <1>7, <1>8 DEF Settled

(* No step rewrites an outcome or a closed attempt.                         *)
LEMMA SettledStep == ASSUME WebhookInv, [Next]_vars, NEW d \in Deliveries PROVE Settled(d)
  <1>1. ASSUME NEW f \in FanOuts, FanOutCommit(f) PROVE Settled(d)
    <2>1. attempts' = attempts /\ (st'[d] = st[d] \/ st[d] = "none")
      BY <1>1 DEF FanOutCommit
    <2>2. QED
      BY <2>1 DEF Settled, Final
  <1>2. CASE UNCHANGED <<st, attempts>>
    BY <1>2, SameIsSettled
  <1>3. CASE Next /\ ~UNCHANGED <<st, attempts>>
    <2>1. \/ \E s \in Subs : DisableCommit(s)
          \/ \E f \in FanOuts : FanOutCommit(f)
          \/ \E w \in Workers : ClaimCommit(w) \/ CompleteCommit(w)
      BY <1>3 DEF Next, InsertWebhookSubscription, DisableBegin, DisableStep, DisableAttempts, DisableCancel, DisableLock, DisableFails, InsertEvent,
         ComesDue, LeaseExpires, FanOutStep, FanOutSelect, FanOutMatch, FanOutFails, WorkerStep, ClaimSelect, ClaimNothing,
         ClaimRecheck, Deliver, CompleteLock, DeadlockAborts, WorkerFails, tables
    <2>2. QED
      BY <1>1, <2>1, ClaimSettles, CompleteSettles, DisableSettles
  <1>4. QED
    BY <1>2, <1>3 DEF vars, tables

(* A finished delivery, a cancelled one included, stays as it is and is not  *)
(* attempted again, no closed attempt is written again or removed, and a     *)
(* delivery that escaped a Disable is attempted at most once after it, by a  *)
(* claim that had read the subscription before (CompleteWebhookAttempt,      *)
(* DisableWebhookSubscription).                                             *)
THEOREM HistoryStaysImmutable == Spec => HistoryIsImmutable
  <1>1. WebhookInv /\ [Next]_vars => [\A d \in Deliveries : Settled(d)]_vars
    BY SettledStep
  <1>2. QED
    BY WebhookInit, WebhookStep, <1>1, PTL DEF Spec, HistoryIsImmutable, Settled
=============================================================================
