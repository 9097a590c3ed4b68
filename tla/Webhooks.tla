------------------------------ MODULE Webhooks ------------------------------
(***************************************************************************)
(* Webhook fan-out and delivery: events become one delivery obligation per *)
(* matching subscription, and a pool of workers claims the obligations     *)
(* under leases, POSTs them and records the attempts, while tenants create *)
(* and disable subscriptions.                                              *)
(*                                                                         *)
(* Every operation is a PostgreSQL transaction at READ COMMITTED, so its   *)
(* statements are separate steps: each reads what is committed when it     *)
(* starts, the row and advisory locks it takes are held until it ends, and *)
(* what it writes becomes visible when it commits.  A transaction's last   *)
(* statements and its commit are one step.                                 *)
(*                                                                         *)
(* A delivery is identified by its subscription and event, which is the    *)
(* table's UNIQUE key.  attempt_count is the number of attempt rows, and   *)
(* the lease token of a claim, fresh for each one, is the attempt number   *)
(* the claim created.  Tenant and event type of a subscription are the set *)
(* of events it Wants.                                                     *)
(***************************************************************************)
EXTENDS Integers, Sequences, FiniteSets

CONSTANTS
  Subs,         \* subscriptions
  Events,       \* rows of the events table
  Tenants,
  TenantOf,     \* the tenant of each subscription
  Wants,        \* the events whose tenant and public type a subscription matches
  Workers,      \* goroutines of the webhook worker pools, of all replicas
  FanOuts,      \* fan-out loops, one per replica
  Limit,        \* events one fan-out transaction takes
  MaxAttempts,  \* webhook.MaxAttempts
  MaxSkips,     \* maxBusyTenantSkips
  MaxDisables,  \* bound: calls of DisableWebhookSubscription
  MaxLapses,    \* bound: leases that run out under a worker still at work
  MaxFaults     \* bound: crashes, panics and failing database calls

ASSUME WebhooksAssumption ==
  /\ TenantOf \in [Subs -> Tenants] /\ Wants \in [Subs -> SUBSET Events]
  /\ MaxAttempts \in Nat \ {0}

VARIABLES
  sub,       \* subscription: "absent", "enabled" or "disabled"
  ev,        \* event: "absent", "pending" (fanned_out_at IS NULL) or "fanned"
  older,     \* event -> subscriptions with created_at <= occurred_at
  st,        \* delivery -> webhook_deliveries.status, "none" before fan-out
  due,       \* delivery -> next_attempt_at has come
  live,      \* delivery -> lease_expires_at is in the future
  attempts,  \* delivery -> statuses of its webhook_delivery_attempts, in order
  worker,    \* worker -> where it is, its delivery, attempt number and outcome
  fan,       \* fan-out loop -> locked events and the subscriptions matched so far
  dis,       \* subscription -> its DisableWebhookSubscription transaction
  lapses,    \* history: expired leases of each delivery
  forced,    \* history: leases that ran out under a worker still at work
  faults,    \* history: faults so far
  disables,  \* history: calls of DisableWebhookSubscription
  answered,  \* history: attempts the endpoint answered with 2xx
  late       \* history: deliveries attempted after their subscription was disabled

tables == <<sub, ev, older, st, due, live, attempts>>
history == <<lapses, forced, faults, disables, answered, late>>
vars == <<tables, worker, fan, dis, history>>

Deliveries == {d \in Subs \X Events : d[2] \in Wants[d[1]]}
Tenant(d) == TenantOf[d[1]]
Statuses == {"none", "pending", "delivering", "succeeded", "failed", "cancelled"}
Final == {"succeeded", "failed", "cancelled"}
AttemptStatuses == {"in_progress", "succeeded", "retrying", "failed"}
Outcomes == {"succeeded", "retrying", "failed"}

Idle == [pc |-> "idle", d |-> <<>>, n |-> 0, res |-> "-", skip |-> {}]
Waiting(skip) == [Idle EXCEPT !.skip = skip]
NoFan == [batch |-> {}, matched |-> <<>>]
NoDisable == [pc |-> "idle", closing |-> {}, targets |-> {}, locked |-> {}]

Init ==
  /\ sub = [s \in Subs |-> "absent"]
  /\ ev = [e \in Events |-> "absent"]
  /\ older = [e \in Events |-> {}]
  /\ st = [d \in Deliveries |-> "none"]
  /\ due = [d \in Deliveries |-> FALSE]
  /\ live = [d \in Deliveries |-> FALSE]
  /\ attempts = [d \in Deliveries |-> <<>>]
  /\ worker = [w \in Workers |-> Idle]
  /\ fan = [f \in FanOuts |-> NoFan]
  /\ dis = [s \in Subs |-> NoDisable]
  /\ lapses = [d \in Deliveries |-> 0]
  /\ forced = 0 /\ faults = 0 /\ disables = 0 /\ answered = {} /\ late = {}

-----------------------------------------------------------------------------
(* Locks, as the transactions that hold them. *)

HeldByWorker(d) == \E w \in Workers :
  worker[w].d = d /\ worker[w].pc \in {"selected", "claiming", "closing"}
DeliveryLocked(d) == HeldByWorker(d) \/ d \in dis[d[1]].locked
TenantLocked_Never(t) == FALSE
TenantLocked(t) == \E w \in Workers :
  worker[w].pc = "claiming" /\ Tenant(worker[w].d) = t
AttemptLocked(d) == \E a \in dis[d[1]].closing : a[1] = d
EventLocked(e) == \E f \in FanOuts : e \in fan[f].batch

-----------------------------------------------------------------------------
(* Tenants and the delivery pipeline. *)

InsertWebhookSubscription(s) ==
  /\ sub[s] = "absent"
  /\ sub' = [sub EXCEPT ![s] = "enabled"]
  /\ UNCHANGED <<ev, older, st, due, live, attempts, worker, fan, dis, history>>

InsertEvent(e) ==
  /\ ev[e] = "absent"
  /\ ev' = [ev EXCEPT ![e] = "pending"]
  /\ older' = [older EXCEPT ![e] = {s \in Subs : sub[s] # "absent"}]
  /\ UNCHANGED <<sub, st, due, live, attempts, worker, fan, dis, history>>

(* Time passes: a retry is due; a lease runs out, under a worker that is    *)
(* still at work at most MaxLapses times.                                   *)
ComesDue(d) ==
  /\ st[d] = "pending" /\ ~due[d]
  /\ due' = [due EXCEPT ![d] = TRUE]
  /\ UNCHANGED <<sub, ev, older, st, live, attempts, worker, fan, dis, history>>

Held(d) == \E w \in Workers :
  /\ worker[w].d = d /\ worker[w].n = Len(attempts[d])
  /\ worker[w].pc \in {"posting", "completing", "closing"}

LeaseExpires(d) ==
  /\ st[d] = "delivering" /\ live[d]
  /\ Held(d) => forced < MaxLapses
  /\ live' = [live EXCEPT ![d] = FALSE]
  /\ lapses' = [lapses EXCEPT ![d] = @ + 1]
  /\ forced' = IF Held(d) THEN forced + 1 ELSE forced
  /\ UNCHANGED <<sub, ev, older, st, due, attempts, worker, fan, dis, faults, disables, answered, late>>

-----------------------------------------------------------------------------
(* FanOutWebhookEvents: SELECT events FOR UPDATE SKIP LOCKED, one           *)
(* subscription query per event, then the inserts and the marks.            *)

FanOutSelect(f) ==
  LET free == {e \in Events : ev[e] = "pending" /\ ~EventLocked(e)} IN
  /\ fan[f] = NoFan
  /\ \E B \in SUBSET free :
       /\ B # {} /\ Cardinality(B) <= Limit
       /\ Cardinality(B) = Limit \/ B = free
       /\ fan' = [fan EXCEPT ![f].batch = B]
  /\ UNCHANGED <<tables, worker, dis, history>>

Matching(e) == {s \in Subs : e \in Wants[s] /\ sub[s] = "enabled" /\ s \in older[e]}

FanOutMatch(f) ==
  \E e \in fan[f].batch \ DOMAIN fan[f].matched :
    /\ fan' = [fan EXCEPT ![f].matched =
         [x \in DOMAIN @ \cup {e} |-> IF x = e THEN Matching(e) ELSE @[x]]]
    /\ UNCHANGED <<tables, worker, dis, history>>

FanOutCommit(f) ==
  LET batch == fan[f].batch
      new == {d \in Deliveries : /\ d[2] \in batch /\ d[1] \in fan[f].matched[d[2]]
                                 /\ st[d] = "none"}
  IN
  /\ batch # {} /\ DOMAIN fan[f].matched = batch
  /\ st' = [d \in Deliveries |-> IF d \in new THEN "pending" ELSE st[d]]
  /\ due' = [d \in Deliveries |-> d \in new \/ due[d]]
  /\ ev' = [e \in Events |-> IF e \in batch THEN "fanned" ELSE ev[e]]
  /\ fan' = [fan EXCEPT ![f] = NoFan]
  /\ UNCHANGED <<sub, older, live, attempts, worker, dis, history>>

FanOutFails_Marks(f) ==
  /\ faults < MaxFaults /\ faults' = faults + 1
  /\ fan[f] # NoFan
  /\ ev' = [e \in Events |-> IF e \in fan[f].batch THEN "fanned" ELSE ev[e]]
  /\ fan' = [fan EXCEPT ![f] = NoFan]
  /\ UNCHANGED <<sub, older, st, due, live, attempts, worker, dis, lapses, forced, disables, answered, late>>

(* An error or a crash rolls the transaction back; Run tries again.         *)
FanOutFails(f) ==
  /\ faults < MaxFaults /\ faults' = faults + 1
  /\ fan[f] # NoFan
  /\ fan' = [fan EXCEPT ![f] = NoFan]
  /\ UNCHANGED <<tables, worker, dis, lapses, forced, disables, answered, late>>

-----------------------------------------------------------------------------
(* ClaimWebhookDelivery. *)

ActiveBeside(d) == \E x \in Deliveries :
  x # d /\ Tenant(x) = Tenant(d) /\ st[x] = "delivering" /\ live[x]

Claimable_NoReclaim(d, skip) ==
  /\ sub[d[1]] = "enabled" /\ st[d] = "pending" /\ due[d]
  /\ Tenant(d) \notin skip /\ ~ActiveBeside(d) /\ ~DeliveryLocked(d)

Claimable_Disabled(d, skip) ==
  /\ \/ st[d] = "pending" /\ due[d]
     \/ st[d] = "delivering" /\ ~live[d]
  /\ Tenant(d) \notin skip /\ ~ActiveBeside(d) /\ ~DeliveryLocked(d)

Claimable(d, skip) ==
  /\ sub[d[1]] = "enabled"
  /\ \/ st[d] = "pending" /\ due[d]
     \/ st[d] = "delivering" /\ ~live[d]
  /\ Tenant(d) \notin skip
  /\ ~ActiveBeside(d)
  /\ ~DeliveryLocked(d)

ClaimSelect(w) ==
  /\ worker[w].pc = "idle" /\ Cardinality(worker[w].skip) < MaxSkips
  /\ \E d \in Deliveries :
       /\ Claimable(d, worker[w].skip)
       /\ worker' = [worker EXCEPT ![w].pc = "selected", ![w].d = d]
  /\ UNCHANGED <<tables, fan, dis, history>>

(* The call gives up after busy tenants and polls again later.              *)
ClaimNothing(w) ==
  /\ worker[w].pc = "idle" /\ worker[w].skip # {}
  /\ \/ Cardinality(worker[w].skip) >= MaxSkips
     \/ \A d \in Deliveries : ~Claimable(d, worker[w].skip)
  /\ worker' = [worker EXCEPT ![w] = Idle]
  /\ UNCHANGED <<tables, fan, dis, history>>

(* pg_advisory_xact_lock on the tenant, then the check repeated.            *)
ClaimRecheck(w) ==
  LET d == worker[w].d IN
  /\ worker[w].pc = "selected"
  /\ ~TenantLocked(Tenant(d))
  /\ worker' = [worker EXCEPT ![w] =
       IF ActiveBeside(d) THEN Waiting(@.skip \cup {Tenant(d)})
       ELSE [@ EXCEPT !.pc = "claiming"]]
  /\ UNCHANGED <<tables, fan, dis, history>>

CloseAttempt_Keeps(h, n, r) == h

(* CloseAttempt: UPDATE ... WHERE attempt_number = n AND in_progress.     *)
CloseAttempt(h, n, r) ==
  [i \in DOMAIN h |-> IF i = n /\ h[i] = "in_progress" THEN r ELSE h[i]]

ClaimCommit(w) ==
  LET d == worker[w].d
      reclaim == st[d] = "delivering"
      h == IF reclaim THEN CloseAttempt(attempts[d], Len(attempts[d]), "retrying")
           ELSE attempts[d]
  IN
  /\ worker[w].pc = "claiming"
  /\ reclaim => ~AttemptLocked(d)
  /\ st' = [st EXCEPT ![d] = "delivering"]
  /\ live' = [live EXCEPT ![d] = TRUE]
  /\ attempts' = [attempts EXCEPT ![d] = Append(h, "in_progress")]
  /\ worker' = [worker EXCEPT ![w] =
       [Idle EXCEPT !.pc = "posting", !.d = d, !.n = Len(attempts[d]) + 1]]
  /\ late' = IF sub[d[1]] = "disabled" THEN late \cup {d} ELSE late
  /\ UNCHANGED <<sub, ev, older, due, fan, dis, lapses, forced, faults, disables, answered>>

-----------------------------------------------------------------------------
(* safeDeliver: the POST, and CompleteWebhookAttempt. *)

retryOrFail_OneMore(attempt) == IF attempt > MaxAttempts THEN "failed" ELSE "retrying"

retryOrFail(attempt) == IF attempt >= MaxAttempts THEN "failed" ELSE "retrying"

(* What came back: a 2xx, a 408, 429 or 5xx, another answer (redirects are  *)
(* not followed), no answer, or no request because the secret or the        *)
(* payload could not be built.                                              *)
Replies == {"2xx", "busy", "other", "network", "unbuilt", "no_secret"}

Outcome_Redirects(reply, n) ==
  CASE reply \in {"2xx", "other"} -> "succeeded"
    [] reply \in {"busy", "network", "unbuilt"} -> retryOrFail(n)
    [] OTHER -> "failed"

Outcome(reply, n) ==
  CASE reply = "2xx" -> "succeeded"
    [] reply \in {"busy", "network", "unbuilt"} -> retryOrFail(n)
    [] OTHER -> "failed"

Deliver(w) ==
  /\ worker[w].pc = "posting"
  /\ \E reply \in Replies :
       /\ worker' = [worker EXCEPT ![w].pc = "completing",
                                  ![w].res = Outcome(reply, worker[w].n)]
       /\ answered' = IF reply = "2xx"
                      THEN answered \cup {<<worker[w].d, worker[w].n>>} ELSE answered
  /\ UNCHANGED <<tables, fan, dis, lapses, forced, faults, disables, late>>

(* SELECT ... WHERE status = 'delivering' AND lease_token = $2 FOR UPDATE.  *)
Owns(w) == st[worker[w].d] = "delivering" /\ Len(attempts[worker[w].d]) = worker[w].n

CompleteLock(w) ==
  /\ worker[w].pc = "completing" /\ ~DeliveryLocked(worker[w].d)
  /\ worker' = [worker EXCEPT ![w] = IF Owns(w) THEN [@ EXCEPT !.pc = "closing"] ELSE Idle]
  /\ UNCHANGED <<tables, fan, dis, history>>

Transition(res) == IF res = "retrying" THEN "pending" ELSE res

CompleteCommit(w) ==
  LET d == worker[w].d
      n == worker[w].n
      res == worker[w].res
      open == n \in DOMAIN attempts[d] /\ attempts[d][n] = "in_progress"
  IN
  /\ worker[w].pc = "closing" /\ ~AttemptLocked(d)
  /\ IF open
     THEN /\ attempts' = [attempts EXCEPT ![d] = CloseAttempt(@, n, res)]
          /\ st' = [st EXCEPT ![d] = Transition(res)]
          /\ due' = [due EXCEPT ![d] = FALSE]
          /\ live' = [live EXCEPT ![d] = FALSE]
     ELSE UNCHANGED <<attempts, st, due, live>>
  /\ worker' = [worker EXCEPT ![w] = Idle]
  /\ UNCHANGED <<sub, ev, older, fan, dis, history>>

(* A panic, a crash or a failing call: what the transaction held is rolled  *)
(* back and the claim, if there is one, is left to its lease.               *)
WorkerFails(w) ==
  /\ faults < MaxFaults /\ faults' = faults + 1
  /\ worker[w].pc # "idle"
  /\ worker' = [worker EXCEPT ![w] = Idle]
  /\ UNCHANGED <<tables, fan, dis, lapses, forced, disables, answered, late>>

-----------------------------------------------------------------------------
(* DisableWebhookSubscription: mark the subscription, close the attempts in *)
(* progress, cancel the unfinished deliveries.                              *)

DisableBegin(s) ==
  /\ sub[s] = "enabled" /\ dis[s] = NoDisable
  /\ disables < MaxDisables /\ disables' = disables + 1
  /\ dis' = [dis EXCEPT ![s].pc = "attempts"]
  /\ UNCHANGED <<tables, worker, fan, lapses, forced, faults, answered, late>>

AttemptRows(s) == UNION {{d} \X DOMAIN attempts[d] : d \in {x \in Deliveries : x[1] = s}}

OpenAttempts(s) == {a \in AttemptRows(s) :
  st[a[1]] = "delivering" /\ attempts[a[1]][a[2]] = "in_progress"}

DisableAttempts(s) ==
  /\ dis[s].pc = "attempts"
  /\ dis' = [dis EXCEPT ![s].pc = "deliveries", ![s].closing = OpenAttempts(s)]
  /\ UNCHANGED <<tables, worker, fan, history>>

Unfinished_All(s) == {d \in Deliveries : d[1] = s /\ st[d] # "none"}

Unfinished(s) == {d \in Deliveries : d[1] = s /\ st[d] \in {"pending", "delivering"}}

(* The cancelling UPDATE sees what is committed when it starts: a delivery  *)
(* that a fan-out inserts later is not among its rows.                      *)
DisableCancel(s) ==
  /\ dis[s].pc = "deliveries"
  /\ dis' = [dis EXCEPT ![s].pc = "cancelling", ![s].targets = Unfinished(s)]
  /\ UNCHANGED <<tables, worker, fan, history>>

(* It waits for each row in turn and looks at the status again.             *)
DisableLock(s) ==
  /\ \E d \in dis[s].targets :
       /\ ~DeliveryLocked(d)
       /\ dis' = [dis EXCEPT ![s].targets = @ \ {d},
                             ![s].locked = @ \cup ({d} \cap Unfinished(s))]
  /\ UNCHANGED <<tables, worker, fan, history>>

DisableCommit(s) ==
  /\ dis[s].pc = "cancelling" /\ dis[s].targets = {}
  /\ sub' = [sub EXCEPT ![s] = "disabled"]
  /\ attempts' = [d \in Deliveries |->
       [i \in DOMAIN attempts[d] |->
          IF <<d, i>> \in dis[s].closing THEN "failed" ELSE attempts[d][i]]]
  /\ st' = [d \in Deliveries |-> IF d \in dis[s].locked THEN "cancelled" ELSE st[d]]
  /\ live' = [d \in Deliveries |-> live[d] /\ d \notin dis[s].locked]
  /\ dis' = [dis EXCEPT ![s] = NoDisable]
  /\ UNCHANGED <<ev, older, due, worker, fan, history>>

DisableFails(s) ==
  /\ faults < MaxFaults /\ faults' = faults + 1
  /\ dis[s] # NoDisable
  /\ dis' = [dis EXCEPT ![s] = NoDisable]
  /\ UNCHANGED <<tables, worker, fan, lapses, forced, disables, answered, late>>

(* A worker holds the delivery and waits for its attempt row, Disable holds *)
(* the attempt row and waits for the delivery: PostgreSQL aborts one of the *)
(* two transactions.                                                        *)
Deadlocked(w) ==
  /\ \/ worker[w].pc = "closing"
     \/ worker[w].pc = "claiming" /\ st[worker[w].d] = "delivering"
  /\ AttemptLocked(worker[w].d) /\ dis[worker[w].d[1]].pc = "cancelling"

DeadlockAborts(w) ==
  /\ Deadlocked(w)
  /\ \/ worker' = [worker EXCEPT ![w] = Idle] /\ UNCHANGED dis
     \/ dis' = [dis EXCEPT ![worker[w].d[1]] = NoDisable] /\ UNCHANGED worker
  /\ UNCHANGED <<tables, fan, history>>

-----------------------------------------------------------------------------
WorkerStep(w) ==
  \/ ClaimSelect(w) \/ ClaimNothing(w) \/ ClaimRecheck(w) \/ ClaimCommit(w)
  \/ Deliver(w) \/ CompleteLock(w) \/ CompleteCommit(w) \/ DeadlockAborts(w)
FanOutStep(f) == FanOutSelect(f) \/ FanOutMatch(f) \/ FanOutCommit(f)
DisableStep(s) == DisableAttempts(s) \/ DisableCancel(s) \/ DisableLock(s) \/ DisableCommit(s)

Next ==
  \/ \E s \in Subs : \/ InsertWebhookSubscription(s) \/ DisableBegin(s)
                     \/ DisableStep(s) \/ DisableFails(s)
  \/ \E e \in Events : InsertEvent(e)
  \/ \E d \in Deliveries : ComesDue(d) \/ LeaseExpires(d)
  \/ \E f \in FanOuts : FanOutStep(f) \/ FanOutFails(f)
  \/ \E w \in Workers : WorkerStep(w) \/ WorkerFails(w)

Spec == Init /\ [][Next]_vars

(* The loops of the workers and of the fan-out keep running, transactions   *)
(* and HTTP calls end (they have timeouts), and the clock advances.  A row  *)
(* lock is granted to the transactions that wait for it in turn, while the  *)
(* claims skip a locked row, so DisableLock and CompleteLock are not        *)
(* overtaken for ever.                                                      *)
Fairness ==
  /\ \A w \in Workers : WF_vars(WorkerStep(w)) /\ SF_vars(CompleteLock(w))
  /\ \A f \in FanOuts : WF_vars(FanOutStep(f))
  /\ \A s \in Subs : WF_vars(DisableStep(s)) /\ SF_vars(DisableLock(s))
  /\ \A d \in Deliveries : WF_vars(ComesDue(d)) /\ WF_vars(LeaseExpires(d))
LiveSpec == Spec /\ Fairness

-----------------------------------------------------------------------------
(* Every table, transaction and history variable has its type: the statuses *)
(* are the ones the schema's CHECK constraints list.                        *)
TypeOK ==
  /\ sub \in [Subs -> {"absent", "enabled", "disabled"}]
  /\ ev \in [Events -> {"absent", "pending", "fanned"}]
  /\ older \in [Events -> SUBSET Subs]
  /\ st \in [Deliveries -> Statuses]
  /\ due \in [Deliveries -> BOOLEAN] /\ live \in [Deliveries -> BOOLEAN]
  /\ attempts \in [Deliveries -> Seq(AttemptStatuses)]
  /\ worker \in [Workers ->
       [pc : {"idle", "selected", "claiming", "posting", "completing", "closing"},
        d : Deliveries \cup {<<>>}, n : Nat, res : Outcomes \cup {"-"},
        skip : SUBSET Tenants]]
  /\ \A w \in Workers : worker[w].pc # "idle" => worker[w].d \in Deliveries
  /\ \A f \in FanOuts : /\ fan[f].batch \in SUBSET Events
                         /\ DOMAIN fan[f].matched \subseteq fan[f].batch
                         /\ \A e \in DOMAIN fan[f].matched : fan[f].matched[e] \subseteq Subs
  /\ dis \in [Subs -> [pc : {"idle", "attempts", "deliveries", "cancelling"},
                       closing : SUBSET (Deliveries \X Nat),
                       targets : SUBSET Deliveries, locked : SUBSET Deliveries]]
  /\ lapses \in [Deliveries -> Nat] /\ forced \in Nat /\ faults \in Nat /\ disables \in Nat
  /\ answered \subseteq Deliveries \X Nat /\ late \subseteq Deliveries

(* "At most one active claim per tenant" (webhook_deliveries.go:55): two    *)
(* workers that selected deliveries of one tenant at the same time, neither *)
(* seeing the other's claim, do not both commit it.                         *)
OneActivePerTenant == \A d \in Deliveries :
  st[d] = "delivering" /\ live[d] => ~ActiveBeside(d)

Open(d, i) == attempts[d][i] = "in_progress"

(* The attempt rows tell what the delivery's status tells: only the last    *)
(* attempt of a delivery that is being delivered is open, a finished        *)
(* delivery ends in the attempt that finished it, and only a cancelled one  *)
(* may leave its last attempt open (the Disable that cancelled it looked    *)
(* for open attempts before the claim committed).                           *)
AttemptsMatchDelivery == \A d \in Deliveries :
  LET n == Len(attempts[d]) IN
  /\ \A i \in 1 .. n - 1 : attempts[d][i] = "retrying"
  /\ st[d] = "delivering" <=> n > 0 /\ Open(d, n) /\ st[d] # "cancelled"
  /\ st[d] \in {"succeeded", "failed"} => n > 0 /\ attempts[d][n] = st[d]
  /\ st[d] = "pending" /\ n > 0 => attempts[d][n] = "retrying"
  /\ st[d] = "none" => n = 0

(* A delivery is succeeded only when the endpoint answered its last attempt *)
(* with a 2xx, whatever late or replaced workers reported.                  *)
SuccessIsReal == \A d \in Deliveries :
  st[d] = "succeeded" => <<d, Len(attempts[d])>> \in answered

(* "CompleteWebhookAttempt ... fences stale workers" and Disable keeps      *)
(* history: a finished delivery, and so one that Disable cancelled, stays   *)
(* as it is and is never attempted again, and no attempt that was closed is *)
(* written again or removed.  A delivery that a fan-out inserts while       *)
(* Disable runs escapes it, and a claim that read the subscription before   *)
(* Disable committed attempts it afterwards; it does so at most once.       *)
HistoryIsImmutable == [][\A d \in Deliveries :
  /\ st[d] \in Final => st'[d] = st[d] /\ Len(attempts'[d]) = Len(attempts[d])
  /\ sub[d[1]] = "disabled" /\ d \in late => Len(attempts'[d]) = Len(attempts[d])
  /\ \A i \in DOMAIN attempts[d] : i \in DOMAIN attempts'[d]
       /\ (~Open(d, i) => attempts'[d][i] = attempts[d][i])]_vars

(* "A crash commits both or neither" (webhook_fanout.go:15): an event       *)
(* marked as fanned out has a delivery for every subscription that matched  *)
(* it, was created before it and is still enabled.                          *)
FanOutIsComplete == \A e \in Events : ev[e] = "fanned" =>
  \A s \in Matching(e) : st[<<s, e>>] # "none"

(* A delivery is attempted at most MaxAttempts times, plus once for every   *)
(* lease that ran out: retryOrFail is not asked when a claim expires.       *)
AttemptsWithinBudget == \A d \in Deliveries :
  Len(attempts[d]) <= MaxAttempts + lapses[d]

(* Every event that a subscription matches ends in a finished delivery,     *)
(* through failing workers and expired leases, unless it is disabled.       *)
ObligationsSettle == \A d \in Deliveries :
  ev[d[2]] = "pending" /\ d[1] \in older[d[2]]
    ~> st[d] \in Final \/ sub[d[1]] = "disabled"

(* "DisableWebhookSubscription stops future fan-out and atomically cancels  *)
(* all unfinished deliveries" (webhook_subscriptions.go:126).  It fails     *)
(* when a fan-out matched the subscription before and inserts after the     *)
(* cancelling UPDATE started.                                               *)
DisabledIsQuiet == \A s \in Subs : sub[s] = "disabled" => Unfinished(s) = {}

(* The webhook tables agree with one another and with what the endpoints    *)
(* answered, at any point of the claims, completions and fan-outs.          *)
TablesAgree ==
  /\ TypeOK /\ OneActivePerTenant /\ AttemptsMatchDelivery /\ SuccessIsReal
  /\ AttemptsWithinBudget /\ FanOutIsComplete
=============================================================================
