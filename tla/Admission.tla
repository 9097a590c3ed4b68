----------------------------- MODULE Admission ------------------------------
(***************************************************************************)
(* Admission of sending requests of one tenant: the GCRA buckets in Redis   *)
(* (gcraScript is one atomic step), the middleware that charges a request,   *)
(* the surcharge of a batch, and the checks of admitSend before an email    *)
(* is inserted.  Requests run concurrently, one per process; each check     *)
(* against PostgreSQL is a query of its own, so what it saw may be stale    *)
(* when the email is inserted.  Time is counted in the unit of the          *)
(* buckets' emission intervals.                                            *)
(***************************************************************************)
EXTENDS Integers, Sequences, FiniteSets, FiniteSetsExt

CONSTANTS
  Procs,                 \* requests in flight
  Interval, Burst,       \* bucket -> emission interval, bucket size
  DailySends,            \* the plan's daily volume
  TenantMaxQueuedMessages, MaxPendingDispatch,
  MaxBatchSize,
  MaxRecipients,         \* deliverable recipients of an item
  MaxRequests,           \* bound: requests
  Horizon                \* bound: time

Buckets == {"tenant", "key", "rcpt"}

(* Any rates, sizes and limits; at least one request is in flight. *)
AdmissionAssumption ==
  /\ IsFiniteSet(Procs) /\ Procs # {}
  /\ Interval \in [Buckets -> Nat] /\ Burst \in [Buckets -> Nat]
  /\ DailySends \in Nat /\ TenantMaxQueuedMessages \in Nat /\ MaxPendingDispatch \in Nat
  /\ MaxBatchSize \in Nat /\ MaxRecipients \in Nat
  /\ MaxRequests \in Nat /\ Horizon \in Nat

Window(b) == Interval[b] * Burst[b]

VARIABLES
  now,
  tat,       \* bucket -> the theoretical arrival time stored, 0 without a key
  level,     \* history: bucket -> what a token bucket would hold, in time units
  req,       \* process -> its request
  made,      \* history: requests so far
  daily,     \* the tenant's messages of this day
  queued,    \* its undelivered messages
  pending,   \* outbox rows not dispatched
  paid       \* history: request tokens spent, items worked on, recipients paid, accepted

vars == <<now, tat, level, req, made, daily, queued, pending, paid>>

Idle == [pc |-> "idle", left |-> 0, cost |-> 0]

Init ==
  /\ now = 0 /\ tat = [b \in Buckets |-> 0] /\ level = [b \in Buckets |-> Window(b)]
  /\ req = [p \in Procs |-> Idle] /\ made = 0
  /\ daily = 0 /\ queued = 0 /\ pending = 0
  /\ paid = [tokens |-> 0, items |-> 0, rcpts |-> 0, accepted |-> 0]

-----------------------------------------------------------------------------
(* The limiter.  A charge is a function from the buckets it takes to costs. *)

(* Mutant: time the bucket was idle is saved up. *)
Tat_Unclamped(b, t) == tat[b]

Tat(b, t) == IF tat[b] < t THEN t ELSE tat[b]
NewTat(b, cost, t) == Tat(b, t) + Interval[b] * cost
Impossible(charge) == \E b \in DOMAIN charge : Interval[b] * charge[b] > Window(b)
Refuses(b, cost, t) == t < NewTat(b, cost, t) - Window(b)

gcraAllows(charge, t) ==
  ~Impossible(charge) /\ \A b \in DOMAIN charge : ~Refuses(b, charge[b], t)

(* The wait of the bucket that refuses longest. *)
RetryAfter(charge) ==
  Max({0} \cup {NewTat(b, charge[b], now) - Window(b) - now : b \in DOMAIN charge})

(* All buckets are charged or none. *)
gcraCommit(charge) ==
  /\ tat' = [b \in Buckets |-> IF b \in DOMAIN charge THEN NewTat(b, charge[b], now) ELSE tat[b]]
  /\ level' = [b \in Buckets |-> IF b \in DOMAIN charge THEN level[b] - Interval[b] * charge[b]
                                 ELSE level[b]]

Allow(charge) == gcraAllows(charge, now) /\ gcraCommit(charge)

(* Refused, impossible or Redis failed: nothing is charged, unless only the  *)
(* answer of the script was lost, to the time limit of the call.  The       *)
(* callers below all refuse the write then.                                *)
Refused(charge) == UNCHANGED <<tat, level>> \/ Allow(charge)

(* A key outlives its arrival time by a second at least. *)
KeyExpires(b) ==
  /\ tat[b] # 0 /\ tat[b] < now
  /\ tat' = [tat EXCEPT ![b] = 0]
  /\ UNCHANGED <<now, level, req, made, daily, queued, pending, paid>>

Tick ==
  /\ now < Horizon /\ now' = now + 1
  /\ level' = [b \in Buckets |-> Min({Window(b), level[b] + 1})]
  /\ UNCHANGED <<tat, req, made, daily, queued, pending, paid>>

-----------------------------------------------------------------------------
(* The request. *)

Goto(p, pc) == req' = [req EXCEPT ![p].pc = pc]
Done(p) == req' = [req EXCEPT ![p] = Idle]
Stored == UNCHANGED <<daily, queued, pending>>

RequestCharge(n) == [b \in {"tenant", "key"} |-> n]

requestLimitMiddleware(p) ==
  /\ req[p].pc = "idle" /\ made < MaxRequests /\ made' = made + 1
  /\ \/ Refused(RequestCharge(1)) /\ UNCHANGED <<req, paid>>
     \/ /\ Allow(RequestCharge(1)) /\ paid' = [paid EXCEPT !.tokens = @ + 1]
        /\ \E n \in 1..MaxBatchSize :
             req' = [req EXCEPT ![p] = [pc |-> IF n > 1 THEN "batch" ELSE "item", left |-> n, cost |-> 0]]
  /\ Stored /\ UNCHANGED now

(* Mutant: a batch costs what one email costs. *)
Surcharge_None(n) == 0

(* The other n - 1 tokens of a batch, before any of its items. *)
Surcharge(n) == n - 1

handleSendBatch(p) ==
  /\ req[p].pc = "batch"
  /\ LET extra == Surcharge(req[p].left)
     IN \/ Refused(RequestCharge(extra)) /\ Done(p) /\ UNCHANGED paid
        \/ /\ Allow(RequestCharge(extra)) /\ Goto(p, "item")
           /\ paid' = [paid EXCEPT !.tokens = @ + extra]
  /\ Stored /\ UNCHANGED <<now, made>>

(* The loop over the items: one that fails validation or comes after the    *)
(* processing budget is answered without work.                             *)
NextItem(p) ==
  /\ req[p].pc = "item"
  /\ IF req[p].left = 0 THEN Done(p) /\ UNCHANGED paid
     ELSE \/ req' = [req EXCEPT ![p].left = @ - 1] /\ UNCHANGED paid
          \/ /\ \E c \in 1..MaxRecipients :
                  req' = [req EXCEPT ![p] = [pc |-> "daily", left |-> @.left - 1, cost |-> c]]
             /\ paid' = [paid EXCEPT !.items = @ + 1]
  /\ Stored /\ UNCHANGED <<now, tat, level, made>>

(* admitSend: each check is a query; a refusal goes on to the next item. *)
Check(p, at, ok, next) ==
  /\ req[p].pc = at /\ Goto(p, IF ok THEN next ELSE "item")
  /\ Stored /\ UNCHANGED <<now, tat, level, made, paid>>

(* Mutant: the daily volume is not looked at. *)
CheckDailySendLimit_None(p) == Check(p, "daily", TRUE, "queue")

CheckDailySendLimit(p) == Check(p, "daily", daily + 1 <= DailySends, "queue")
CountTenantQueued(p) == Check(p, "queue", queued < TenantMaxQueuedMessages, "outbox")
CountPendingOutbox(p) == Check(p, "outbox", pending < MaxPendingDispatch, "charge")

admitSend(p) ==
  /\ req[p].pc = "charge"
  /\ LET charge == [b \in {"rcpt"} |-> req[p].cost]
     IN \/ Refused(charge) /\ Goto(p, "item") /\ UNCHANGED paid
        \/ /\ Allow(charge) /\ Goto(p, "insert")
           /\ paid' = [paid EXCEPT !.rcpts = @ + req[p].cost]
  /\ Stored /\ UNCHANGED <<now, made>>

InsertMessage(p) ==
  /\ req[p].pc = "insert" /\ Goto(p, "item")
  /\ \/ Stored /\ UNCHANGED paid                    \* the transaction fails
     \/ /\ daily' = daily + 1 /\ queued' = queued + 1 /\ pending' = pending + 1
        /\ paid' = [paid EXCEPT !.accepted = @ + req[p].cost]
  /\ UNCHANGED <<now, tat, level, made>>

(* The dispatcher and the workers. *)
Drain ==
  /\ \/ pending > 0 /\ pending' = pending - 1 /\ UNCHANGED queued
     \/ queued > pending /\ queued' = queued - 1 /\ UNCHANGED pending
  /\ UNCHANGED <<now, tat, level, req, made, daily, paid>>

Next ==
  \/ Tick \/ Drain \/ \E b \in Buckets : KeyExpires(b)
  \/ \E p \in Procs :
       \/ requestLimitMiddleware(p) \/ handleSendBatch(p) \/ NextItem(p)
       \/ CheckDailySendLimit(p) \/ CountTenantQueued(p) \/ CountPendingOutbox(p)
       \/ admitSend(p) \/ InsertMessage(p)

Spec == Init /\ [][Next]_vars

-----------------------------------------------------------------------------

TypeOK == tat \in [Buckets -> Nat] /\ daily \in Nat /\ queued \in Nat /\ pending \in 0..queued

(* The one number per bucket stands for a token bucket: what the arrival    *)
(* time leaves of the window is what a bucket of that size, refilled at     *)
(* the rate and charged at once, would hold, also after the key expired.    *)
GcraIsATokenBucket ==
  \A b \in Buckets : level[b] = Window(b) - (Tat(b, now) - now) /\ level[b] >= 0

(* A refusal's Retry-After is exact: after that wait the same charge is     *)
(* allowed, and not a moment earlier.                                      *)
RetryAfterIsExact ==
  \A n \in 1..MaxBatchSize :
    LET charge == RequestCharge(n)
    IN ~Impossible(charge) /\ ~gcraAllows(charge, now) =>
         /\ gcraAllows(charge, now + RetryAfter(charge))
         /\ ~gcraAllows(charge, now + RetryAfter(charge) - 1)

(* The caps are checks, not reservations: concurrent requests overshoot     *)
(* them, and by no more than one email for every other request in flight.   *)
OvershootIsBounded ==
  LET others == Cardinality(Procs) - 1
  IN /\ daily <= DailySends + others
     /\ queued <= TenantMaxQueuedMessages + others
     /\ pending <= MaxPendingDispatch + others

(* No work without payment: every item worked on cost the tenant a request  *)
(* token, alone or in a batch, and every accepted recipient a recipient     *)
(* token.                                                                  *)
WorkIsPaidFor == paid.items <= paid.tokens /\ paid.accepted <= paid.rcpts

(* Admission does what its limits promise: the buckets are token buckets,   *)
(* the caps are exceeded only by what is in flight, no work is free.        *)
AdmissionIsExact ==
  TypeOK /\ GcraIsATokenBucket /\ RetryAfterIsExact /\ OvershootIsBounded /\ WorkIsPaidFor
=============================================================================
