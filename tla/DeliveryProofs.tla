--------------------------- MODULE DeliveryProofs ---------------------------
(***************************************************************************)
(* What Delivery guarantees for every number of processes, workers,        *)
(* messages, faults and lost leases: types, the agreement of the message   *)
(* status with the stored attempts, the immutability of those attempts,    *)
(* and that the pipeline uses the queue only as its contract allows.       *)
(* If leases outlast the work: outcomes are durable before an Ack, nothing *)
(* is stranded, a second acceptance costs a fault, and in one process      *)
(* every operation starts from the stored attempts.                        *)
(***************************************************************************)
EXTENDS Delivery, FiniteSetTheorems, TLAPS

\* The places at which a worker holds a pointer to a retry.State.
Holding == {"suppress", "record", "permit", "smtp", "append", "evaluate",
            "latest", "persist"}

\* A worker at place q has a job, a token, a state and a result to match.
Bound(q, k, t, r, x) ==
    /\ q # "idle" => k \in Jobs /\ t \in 1..MaxToken
    /\ q \in Holding => r \in 1..MaxToken
    /\ q \in {"append", "persist"} => x \in Results

WorkersBound == \A w \in Workers : Bound(pc[w], job[w], tok[w], ref[w], res[w])

WorkerInv == WorkerTypeOK /\ WorkersBound

\* A job waiting for its time is unowned, so that an Ack cannot remove it.
QueueInv == QueueTypeOK /\ \A j \in deferred : owner[j] = 0

\* The attempt number is a key of delivery_attempts.
NumbersAreKeys ==
    \A m \in Jobs : /\ IsFiniteSet(rows[m])
                    /\ \A x, y \in rows[m] : x[1] = y[1] => x = y

DatabaseInv == DatabaseTypeOK /\ NumbersAreKeys /\ StatusMatchesRows

IInv == QueueInv /\ DatabaseInv /\ ProcessTypeOK /\ WorkerInv /\ HistoryTypeOK

-----------------------------------------------------------------------------
(* Facts about the values.                                                 *)

\* No result is confused with its absence, and the operators on retry states
\* return what their names say.
LEMMA Values ==
    /\ NoResult \notin Results
    /\ EmptyState \in States
    /\ \A s \in States : Evaluate(s) \in Verdicts
    /\ \A s \in States : s.n \in Nat /\ s.last \in Results \cup {NoResult}
    /\ \A s \in States : s.n # 0 => s.last \in Results
    /\ \A s \in States, r \in Results : Recorded(s, r) \in States
<1>1. NoResult \notin Results
  BY DeliveryAssumption DEF NoResult, Results
<1>2. QED
  BY <1>1 DEF EmptyState, States, Evaluate, Verdicts, Recorded

-----------------------------------------------------------------------------
(* The workers' variables.                                                 *)

\* A worker that returns to the top of runWorker keeps the invariant.
LEMMA IdleKeeps ==
    ASSUME WorkerInv, NEW ws \in SUBSET Workers, Idle(ws)
    PROVE  WorkerInv'
<1>1. pc' \in [Workers -> Places]
  BY DEF WorkerInv, WorkerTypeOK, Idle, Places
<1>2. /\ job' \in [Workers -> Jobs \cup {NoJob}]
      /\ later' \in [Workers -> BOOLEAN]
  BY DEF WorkerInv, WorkerTypeOK, Idle
<1>3. /\ tok' \in [Workers -> 0..MaxToken]
      /\ ref' \in [Workers -> 0..MaxToken]
  BY DeliveryAssumption DEF WorkerInv, WorkerTypeOK, Idle
<1>4. seen' \in [Workers -> Statuses \cup {"some", "all"}]
  BY DEF WorkerInv, WorkerTypeOK, Idle, Statuses
<1>5. /\ res' \in [Workers -> Results \cup {NoResult}]
      /\ base' \in [Workers -> States]
  BY Values DEF WorkerInv, WorkerTypeOK, Idle
<1>6. verdict' \in [Workers -> Verdicts]
  BY DEF WorkerInv, WorkerTypeOK, Idle, Verdicts
<1>7. WorkersBound'
  BY DEF WorkerInv, WorkersBound, WorkerTypeOK, Bound, Idle, Holding
<1>8. QED
  BY <1>1, <1>2, <1>3, <1>4, <1>5, <1>6, <1>7 DEF WorkerInv, WorkerTypeOK

\* A worker may move on to any place it has what that place needs for.
LEMMA GotoKeeps ==
    ASSUME WorkerInv, NEW w \in Workers, NEW l \in Places, Goto(w, l),
           pc[w] # "idle", UNCHANGED <<job, tok, ref, res>>,
           l \in Holding => pc[w] \in Holding,
           l \in {"append", "persist"} => res[w] \in Results
    PROVE  pc' \in [Workers -> Places] /\ WorkersBound'
BY DEF WorkerInv, WorkersBound, WorkerTypeOK, Bound, Goto

(* Deciding to Release, and the Release itself, keep every worker in order. *)
LEMMA ReleaseKeeps ==
    ASSUME WorkerInv, NEW w \in Workers, NEW d \in BOOLEAN, ToRelease(w, d),
           pc[w] # "idle", UNCHANGED <<job, tok, ref, seen, res, base, verdict>>
    PROVE  WorkerInv'
BY DEF WorkerInv, WorkersBound, WorkerTypeOK, Bound, Goto, ToRelease, Places,
       Holding

(* A Claim gives the worker its job and leaves the others alone.            *)
LEMMA ClaimKeeps ==
    ASSUME WorkerInv, QueueInv, NEW w \in Workers, NEW E \in SUBSET Owned,
           NEW m \in Jobs, Claim(w, E, m)
    PROVE  WorkerInv'
<1>1. issued + 1 \in 1..MaxToken
  BY DeliveryAssumption DEF Claim, QueueInv, QueueTypeOK
<1>2. WorkerTypeOK'
  BY <1>1 DEF WorkerInv, WorkerTypeOK, Claim, Goto, Places
<1>3. WorkersBound'
  BY <1>1 DEF WorkerInv, WorkersBound, WorkerTypeOK, Bound, Claim, Goto,
              Holding
<1>4. QED
  BY <1>2, <1>3 DEF WorkerInv

(* LoadStatus and its early exits keep the worker in order.                 *)
LEMMA LoadKeeps ==
    ASSUME WorkerInv, DatabaseTypeOK, NEW w \in Workers, LoadStatus(w)
    PROVE  WorkerInv'
<1>1. CASE Goto(w, "ack") /\ UNCHANGED seen
  BY <1>1, GotoKeeps DEF LoadStatus, WorkerInv, WorkerTypeOK, Places, Holding
<1>2. CASE Goto(w, "restore") /\ seen' = [seen EXCEPT ![w] = status[job[w]]]
  <2>1. job[w] \in Jobs
    BY DEF WorkerInv, WorkersBound, Bound, LoadStatus
  <2>2. seen' \in [Workers -> Statuses \cup {"some", "all"}]
    BY <1>2, <2>1 DEF WorkerInv, WorkerTypeOK, DatabaseTypeOK
  <2>3. QED
    BY <1>2, <2>2, GotoKeeps
       DEF LoadStatus, WorkerInv, WorkerTypeOK, Places, Holding
<1>3. QED
  BY <1>1, <1>2 DEF LoadStatus

(* getOrSet hands the worker a cached or a restored state of its own message. *)
LEMMA RestoreKeeps ==
    ASSUME WorkerInv, ProcessTypeOK, NEW w \in Workers, RestoreState(w)
    PROVE  WorkerInv'
<1>1. job[w] \in Jobs /\ tok[w] \in 1..MaxToken /\ pc[w] # "idle"
  BY DEF WorkerInv, WorkersBound, Bound, RestoreState
<1>2. ASSUME NEW s, getOrSet(w, s), Goto(w, "suppress"), UNCHANGED later
      PROVE  WorkerInv'
  <2>1. \/ ref' = [ref EXCEPT ![w] = tok[w]]
        \/ /\ cache[ProcOf[w]][job[w]] \in 1..MaxToken
           /\ ref' = [ref EXCEPT ![w] = cache[ProcOf[w]][job[w]]]
    BY <1>1, <1>2, DeliveryAssumption DEF getOrSet, ProcessTypeOK
  <2>2. PICK q \in 1..MaxToken : ref' = [ref EXCEPT ![w] = q]
    BY <1>1, <2>1
  <2>3. QED
    BY <1>1, <1>2, <2>2 DEF RestoreState, WorkerInv, WorkersBound, WorkerTypeOK,
                            Bound, Goto, Places, Holding
<1>3. ASSUME NEW d \in BOOLEAN, ToRelease(w, d), UNCHANGED ref
      PROVE  WorkerInv'
  BY <1>1, <1>3, ReleaseKeeps DEF RestoreState
<1>4. QED
  BY <1>2, <1>3 DEF RestoreState, Restorable

(* The suppression check keeps the worker in order, whichever way it ends.  *)
LEMMA SuppressionKeeps ==
    ASSUME WorkerInv, DatabaseTypeOK, NEW w \in Workers,
           CheckSuppression(w) \/ RecordSuppressed(w)
    PROVE  WorkerInv'
<1>1. job[w] \in Jobs
  BY DEF WorkerInv, WorkersBound, Bound, CheckSuppression, RecordSuppressed
<1>2. seen' \in [Workers -> Statuses \cup {"some", "all"}]
  <2>1. CASE UNCHANGED seen
    BY <2>1 DEF WorkerInv, WorkerTypeOK
  <2>2. CASE blocked[job[w]] # "none"
             /\ seen' = [seen EXCEPT ![w] = blocked[job[w]]]
    BY <1>1, <2>2 DEF WorkerInv, WorkerTypeOK, DatabaseTypeOK
  <2>3. QED
    BY <2>1, <2>2 DEF CheckSuppression, RecordSuppressed
<1>3. /\ \E l \in {"permit", "record", "ack"} : Goto(w, l)
      /\ UNCHANGED <<job, tok, ref, res, base, verdict, later>>
      /\ pc[w] \in {"suppress", "record"}
  BY DEF CheckSuppression, RecordSuppressed
<1>4. QED
  BY <1>2, <1>3, GotoKeeps DEF WorkerInv, WorkerTypeOK, Places, Holding

(* The coordinator's steps carry a recorded outcome to the persist step.    *)
LEMMA AttemptKeeps ==
    ASSUME WorkerInv, ProcessTypeOK, NEW w \in Workers,
           \/ BeginAttempt(w) \/ RecordAttempt(w) \/ EvaluateOutcome(w)
           \/ ReadLatest(w) \/ \E r \in Results : Deliver(w, r)
    PROVE  WorkerInv'
<1>1. ref[w] \in 1..MaxToken /\ heap[ref[w]] \in States
  BY DEF WorkerInv, WorkersBound, Bound, ProcessTypeOK, Holding, BeginAttempt,
         RecordAttempt, EvaluateOutcome, ReadLatest, Deliver
<1>2. CASE BeginAttempt(w)
  BY <1>2, GotoKeeps
     DEF BeginAttempt, WorkerInv, WorkerTypeOK, Places, Holding
<1>3. CASE RecordAttempt(w)
  BY <1>3, GotoKeeps
     DEF RecordAttempt, WorkerInv, WorkerTypeOK, Places, Holding
<1>4. CASE EvaluateOutcome(w)
  <2>1. verdict' \in [Workers -> Verdicts]
    BY <1>1, <1>4, Values DEF EvaluateOutcome, WorkerInv, WorkerTypeOK
  <2>2. QED
    BY <1>4, <2>1, GotoKeeps
       DEF EvaluateOutcome, WorkerInv, WorkerTypeOK, Places, Holding
<1>5. CASE ReadLatest(w)
  <2>1. CASE heap[ref[w]].n = 0
    BY <1>5, <2>1, ReleaseKeeps DEF ReadLatest
  <2>2. CASE heap[ref[w]].n # 0
    <3>1. heap[ref[w]].last \in Results
      BY <1>1, <2>2, Values
    <3>2. WorkerTypeOK'
      BY <1>1, <1>5, <2>2, <3>1
         DEF ReadLatest, WorkerInv, WorkerTypeOK, Goto, Places
    <3>3. WorkersBound'
      BY <1>1, <1>5, <2>2, <3>1 DEF ReadLatest, WorkerInv, WorkersBound,
                                    WorkerTypeOK, Bound, Goto, Holding
    <3>4. QED
      BY <3>2, <3>3 DEF WorkerInv
  <2>3. QED
    BY <2>1, <2>2
<1>6. ASSUME NEW r \in Results, Deliver(w, r) PROVE WorkerInv'
  <2>1. CASE Recordable(heap[ref[w]])
    <3>1. WorkerTypeOK'
      BY <1>1, <1>6, <2>1 DEF Deliver, WorkerInv, WorkerTypeOK, Goto, Places
    <3>2. WorkersBound'
      BY <1>1, <1>6, <2>1 DEF Deliver, WorkerInv, WorkersBound, WorkerTypeOK,
                              Bound, Goto, Holding
    <3>3. QED
      BY <3>1, <3>2 DEF WorkerInv
  <2>2. CASE ~Recordable(heap[ref[w]])
    BY <1>6, <2>2, ReleaseKeeps DEF Deliver
  <2>3. QED
    BY <2>1, <2>2
<1>7. QED
  BY <1>2, <1>3, <1>4, <1>5, <1>6

(* Storing the outcome, or being refused, keeps the worker in order.        *)
LEMMA PersistKeeps ==
    ASSUME WorkerInv, NEW w \in Workers, PersistOutcome(w)
    PROVE  WorkerInv'
<1>1. CASE Goto(w, "ack") /\ UNCHANGED later
  BY <1>1, GotoKeeps DEF PersistOutcome, WorkerInv, WorkerTypeOK, Places, Holding
<1>2. CASE ToRelease(w, TRUE)
  BY <1>2, ReleaseKeeps DEF PersistOutcome
<1>3. QED
  BY <1>1, <1>2 DEF PersistOutcome

(* A panic sends the worker back to Claim with nothing in its hands.        *)
LEMMA PanicKeeps ==
    ASSUME WorkerInv, NEW w \in Workers, Panic(w)
    PROVE  WorkerInv'
<1>1. pc[w] # "idle"
  BY DeliveryAssumption DEF Panic
<1>2. CASE Idle({w})
  BY <1>2, IdleKeeps
<1>3. CASE ToRelease(w, FALSE) /\ UNCHANGED <<job, tok, ref, seen, res, base, verdict>>
  BY <1>1, <1>3, ReleaseKeeps
<1>4. QED
  BY <1>2, <1>3 DEF Panic

\* Every step keeps WorkerInv.
LEMMA WorkerInvStep ==
    ASSUME IInv, Next
    PROVE  WorkerInv'
<1> USE DEF IInv, DatabaseInv
<1>1. CASE UNCHANGED workerVars
  BY <1>1 DEF workerVars, WorkerInv, WorkerTypeOK, WorkersBound
<1>2. ASSUME NEW m \in Jobs, Accept(m) \/ RetryComesDue(m) PROVE WorkerInv'
  BY <1>1, <1>2 DEF Accept, RetryComesDue
<1>3. ASSUME NEW p \in Procs, DispatchStep(p) \/ DispatchFails(p)
      PROVE  WorkerInv'
  BY <1>1, <1>3 DEF DispatchStep, ListPendingOutbox, DispatchEnqueue,
                    MarkOutboxDispatched, DispatchFails
<1>4. CASE ClaimStep
  BY <1>4, ClaimKeeps DEF ClaimStep
<1>5. ASSUME NEW w \in Workers, WorkerStep(w) PROVE WorkerInv'
  <2>1. CASE Ack(w) \/ Release(w)
    BY <2>1, IdleKeeps DEF Ack, Release
  <2>2. QED
    BY <1>5, <2>1, LoadKeeps, RestoreKeeps, SuppressionKeeps, AttemptKeeps,
       PersistKeeps DEF WorkerStep
<1>6. ASSUME NEW p \in Procs, Crash(p) PROVE WorkerInv'
  BY <1>6, IdleKeeps DEF Crash
<1>7. ASSUME NEW w \in Workers,
             \/ LoadFails(w) \/ HoldIfMemberDisabled(w)
             \/ SuppressionUnknown(w) \/ DeferForPermit(w)
      PROVE  WorkerInv'
  BY <1>7, ReleaseKeeps DEF LoadFails, HoldIfMemberDisabled,
     SuppressionUnknown, DeferForPermit, Defer
<1>8. ASSUME NEW w \in Workers, PersistReplyLost(w) PROVE WorkerInv'
  BY <1>1, <1>8 DEF PersistReplyLost
<1>9. ASSUME NEW w \in Workers, QueueCallFails(w) \/ AckReplyLost(w)
      PROVE  WorkerInv'
  BY <1>9, IdleKeeps DEF QueueCallFails, AckReplyLost
<1>10. ASSUME NEW m \in Jobs, NEW b, SetSuppression(m, b) PROVE WorkerInv'
  BY <1>1, <1>10 DEF SetSuppression
<1>11. QED
  BY <1>2, <1>3, <1>4, <1>5, <1>6, <1>7, <1>8, <1>9, <1>10, PanicKeeps
     DEF Next, FaultStep

-----------------------------------------------------------------------------
(* The queue: the pipeline's only calls on it.                             *)

(* What a step of the system does to the queue is one of the queue's own    *)
(* steps.                                                                   *)
LEMMA QueueCases ==
    ASSUME IInv, Next
    PROVE  \/ UNCHANGED queueVars
           \/ \E m \in Jobs : EnqueueJob(m, FALSE)
           \/ \E m \in Jobs : ComeDue({m})
           \/ \E E \in SUBSET Owned, m \in Jobs : ClaimJob(E, m)
           \/ \E m \in Jobs : AckJob(m, owner[m])
           \/ \E m \in Jobs, d \in BOOLEAN : ReleaseJob(m, owner[m], d)
<1>1. \A w \in Workers : pc[w] # "idle" => job[w] \in Jobs /\ later[w] \in BOOLEAN
  BY DEF IInv, WorkerInv, WorkersBound, Bound, WorkerTypeOK
<1>2. ASSUME NEW p \in Procs, DispatchStep(p)
      PROVE  UNCHANGED queueVars \/ \E m \in Jobs : EnqueueJob(m, FALSE)
  BY <1>2 DEF DispatchStep, ListPendingOutbox, DispatchEnqueue,
              MarkOutboxDispatched, IInv, ProcessTypeOK
<1>3. ASSUME NEW w \in Workers, WorkerStep(w)
      PROVE  \/ UNCHANGED queueVars
             \/ \E m \in Jobs : AckJob(m, owner[m])
             \/ \E m \in Jobs, d \in BOOLEAN : ReleaseJob(m, owner[m], d)
  <2>1. CASE Ack(w)
    BY <1>1, <2>1 DEF Ack, Current
  <2>2. CASE Release(w)
    BY <1>1, <2>2 DEF Release, Current
  <2>3. CASE ~Ack(w) /\ ~Release(w)
    BY <1>3, <2>3 DEF WorkerStep, LoadStatus, RestoreState, CheckSuppression,
       RecordSuppressed, BeginAttempt, Deliver, RecordAttempt,
       EvaluateOutcome, ReadLatest, PersistOutcome
  <2>4. QED
    BY <2>1, <2>2, <2>3
<1>4. CASE FaultStep
  <2>1. ASSUME NEW w \in Workers, AckReplyLost(w)
        PROVE  \E m \in Jobs : AckJob(m, owner[m])
    BY <1>1, <2>1 DEF AckReplyLost, Current
  <2>2. QED
    BY <1>4, <2>1 DEF FaultStep, DispatchFails, Crash, LoadFails,
       HoldIfMemberDisabled, SuppressionUnknown, DeferForPermit, Defer, Panic,
       PersistReplyLost, QueueCallFails, SetSuppression
<1>5. ASSUME NEW m \in Jobs, Accept(m) \/ RetryComesDue(m)
      PROVE  UNCHANGED queueVars \/ ComeDue({m})
  BY <1>5 DEF Accept, RetryComesDue
<1>6. CASE ClaimStep
  BY <1>6 DEF ClaimStep, Claim
<1>7. QED
  BY <1>2, <1>3, <1>4, <1>5, <1>6 DEF Next

(* Every step keeps the queue part of the invariant.                        *)
LEMMA QueueInvStep ==
    ASSUME IInv, Next
    PROVE  QueueInv'
<1> USE DEF IInv, QueueInv, QueueTypeOK
<1>1. CASE UNCHANGED queueVars
  BY <1>1 DEF queueVars
<1>2. ASSUME NEW m \in Jobs, EnqueueJob(m, FALSE) PROVE QueueInv'
  BY <1>2 DEF EnqueueJob, Deferral
<1>3. ASSUME NEW m \in Jobs, ComeDue({m}) PROVE QueueInv'
  BY <1>3 DEF ComeDue
<1>4. ASSUME NEW E \in SUBSET Owned, NEW m \in Jobs, ClaimJob(E, m)
      PROVE  QueueInv'
  BY <1>4 DEF ClaimJob, Owned
<1>5. ASSUME NEW m \in Jobs, AckJob(m, owner[m]) PROVE QueueInv'
  BY <1>5 DEF AckJob, Owned
<1>6. ASSUME NEW m \in Jobs, NEW d \in BOOLEAN, ReleaseJob(m, owner[m], d)
      PROVE  QueueInv'
  BY <1>6 DEF ReleaseJob, Deferral, Owned
<1>7. QED
  BY <1>1, <1>2, <1>3, <1>4, <1>5, <1>6, QueueCases

-----------------------------------------------------------------------------
(* PostgreSQL.                                                             *)

\* The transaction of PersistDeliveryOutcome keeps the database invariant.
LEMMA StoreKeeps ==
    ASSUME IInv, NEW w \in Workers, pc[w] = "persist", ~Conflict(w),
           StoreOutcome(w)
    PROVE  DatabaseInv'
<1> DEFINE m == job[w]
           new == <<base[w].n, res[w]>>
<1>1. m \in Jobs /\ res[w] \in Results /\ base[w].n \in Nat
  BY Values DEF IInv, WorkerInv, WorkersBound, Bound, WorkerTypeOK
<1>2. /\ rows' = [rows EXCEPT ![m] = rows[m] \cup {new}]
      /\ status' = [status EXCEPT ![m] = Outcome(w)]
      /\ UNCHANGED <<skipped, outbox>>
  BY DEF StoreOutcome, Number
<1>3. /\ Outcome(w) = "delivered" => res[w] = "accepted"
      /\ Outcome(w) = "retrying" => res[w] \in TempReplies
      /\ Outcome(w) = "failed" => res[w] # "accepted"
      /\ Outcome(w) \in {"delivered", "retrying", "failed"}
  BY <1>1, DeliveryAssumption
     DEF Outcome, classifyDeliveryOutcome, Decide, Results
<1>4. DatabaseTypeOK'
  <2>1. status' \in [Jobs -> Statuses] /\ rows' \in [Jobs -> SUBSET (Nat \X Results)]
    BY <1>1, <1>2, <1>3 DEF IInv, DatabaseInv, DatabaseTypeOK, Statuses
  <2>2. waiting' \in [Jobs -> BOOLEAN] /\ blocked' \in [Jobs -> {"none", "some", "all"}]
    BY <1>1 DEF IInv, DatabaseInv, DatabaseTypeOK, StoreOutcome
  <2>3. QED
    BY <1>2, <2>1, <2>2 DEF IInv, DatabaseInv, DatabaseTypeOK
<1>5. NumbersAreKeys'
  <2>1. \A x \in rows[m] : x[1] = base[w].n => x = new
    BY <1>1 DEF Conflict, Number, IInv, DatabaseInv, DatabaseTypeOK
  <2>2. IsFiniteSet(rows[m] \cup {new})
    BY <1>1, FS_AddElement DEF IInv, DatabaseInv, NumbersAreKeys
  <2>3. QED
    BY <1>1, <1>2, <2>1, <2>2
       DEF IInv, DatabaseInv, NumbersAreKeys, DatabaseTypeOK
<1>6. StatusMatchesRows'
  <2>1. ASSUME NEW k \in Jobs, k # m
        PROVE  status'[k] = status[k] /\ rows'[k] = rows[k] /\ skipped'[k] = skipped[k]
    BY <1>1, <1>2, <2>1 DEF IInv, DatabaseInv, DatabaseTypeOK
  <2>2. /\ status'[m] = Outcome(w)
        /\ new \in rows'[m] /\ new[2] = res[w]
    BY <1>1, <1>2 DEF IInv, DatabaseInv, DatabaseTypeOK
  <2>3. QED
    BY <1>1, <1>3, <2>1, <2>2 DEF IInv, DatabaseInv, StatusMatchesRows
<1>7. QED
  BY <1>4, <1>5, <1>6 DEF DatabaseInv

\* The other writers of the message's rows.
LEMMA DatabaseCases ==
    ASSUME IInv, Next
    PROVE  \/ UNCHANGED <<status, rows, skipped>> /\ DatabaseTypeOK'
           \/ \E m \in Jobs : Accept(m)
           \/ \E w \in Workers : RecordSuppressed(w)
           \/ \E w \in Workers : pc[w] = "persist" /\ ~Conflict(w) /\ StoreOutcome(w)
<1> USE DEF IInv, DatabaseInv, DatabaseTypeOK
<1>0. CASE UNCHANGED pgVars
  BY <1>0 DEF pgVars
<1>1. ASSUME NEW p \in Procs, DispatchStep(p)
      PROVE  UNCHANGED <<status, rows, skipped>> /\ DatabaseTypeOK'
  <2>1. CASE MarkOutboxDispatched(p)
    BY <2>1 DEF MarkOutboxDispatched, ProcessTypeOK
  <2>2. QED
    BY <1>0, <1>1, <2>1
       DEF DispatchStep, ListPendingOutbox, DispatchEnqueue, pgVars
<1>2. ASSUME NEW m \in Jobs, RetryComesDue(m)
      PROVE  UNCHANGED <<status, rows, skipped>> /\ DatabaseTypeOK'
  BY <1>2 DEF RetryComesDue
<1>3. ASSUME NEW m \in Jobs, NEW b \in {"none", "some", "all"},
             SetSuppression(m, b)
      PROVE  UNCHANGED <<status, rows, skipped>> /\ DatabaseTypeOK'
  BY <1>3 DEF SetSuppression
<1>4. ASSUME NEW w \in Workers, WorkerStep(w)
      PROVE  \/ UNCHANGED pgVars
             \/ RecordSuppressed(w)
             \/ pc[w] = "persist" /\ ~Conflict(w) /\ StoreOutcome(w)
  BY <1>4 DEF WorkerStep, LoadStatus, RestoreState, CheckSuppression,
     BeginAttempt, Deliver, RecordAttempt, EvaluateOutcome, ReadLatest,
     PersistOutcome, Ack, Release
<1>5. ASSUME NEW w \in Workers,
             \/ LoadFails(w) \/ HoldIfMemberDisabled(w) \/ SuppressionUnknown(w)
             \/ DeferForPermit(w) \/ Panic(w) \/ PersistReplyLost(w)
             \/ QueueCallFails(w) \/ AckReplyLost(w)
      PROVE  \/ UNCHANGED pgVars
             \/ pc[w] = "persist" /\ ~Conflict(w) /\ StoreOutcome(w)
  BY <1>5 DEF LoadFails, HoldIfMemberDisabled, SuppressionUnknown,
     DeferForPermit, Defer, Panic, PersistReplyLost, QueueCallFails,
     AckReplyLost
<1>6. ASSUME NEW p \in Procs, DispatchFails(p) \/ Crash(p)
      PROVE  UNCHANGED pgVars
  BY <1>6 DEF DispatchFails, Crash
<1>7. CASE ClaimStep
  BY <1>0, <1>7 DEF ClaimStep, Claim
<1>8. CASE FaultStep
  BY <1>0, <1>3, <1>5, <1>6, <1>8 DEF FaultStep
<1>9. QED
  BY <1>0, <1>1, <1>2, <1>4, <1>7, <1>8 DEF Next

(* Every step keeps the agreement of status and attempt rows.               *)
LEMMA DatabaseInvStep ==
    ASSUME IInv, Next
    PROVE  DatabaseInv'
<1> USE DEF IInv, DatabaseInv
<1>1. CASE UNCHANGED <<status, rows, skipped>> /\ DatabaseTypeOK'
  BY <1>1 DEF NumbersAreKeys, StatusMatchesRows
<1>2. ASSUME NEW m \in Jobs, Accept(m) PROVE DatabaseInv'
  BY <1>2 DEF Accept, DatabaseTypeOK, NumbersAreKeys, StatusMatchesRows,
              Statuses
<1>3. ASSUME NEW w \in Workers, RecordSuppressed(w) PROVE DatabaseInv'
  <2>1. job[w] \in Jobs
    BY <1>3 DEF RecordSuppressed, WorkerInv, WorkersBound, Bound
  <2>2. CASE UNCHANGED <<status, skipped>>
    BY <1>3, <2>2 DEF RecordSuppressed, DatabaseTypeOK, NumbersAreKeys,
                      StatusMatchesRows
  <2>3. CASE skipped' = [skipped EXCEPT ![job[w]] = TRUE]
    <3>1. \/ UNCHANGED status
          \/ status' = [status EXCEPT ![job[w]] = "suppressed"]
      BY <1>3 DEF RecordSuppressed
    <3>2. QED
      BY <1>3, <2>1, <2>3, <3>1
         DEF RecordSuppressed, DatabaseTypeOK, NumbersAreKeys,
             StatusMatchesRows, Statuses
  <2>4. QED
    BY <1>3, <2>2, <2>3 DEF RecordSuppressed
<1>4. QED
  BY <1>1, <1>2, <1>3, DatabaseCases, StoreKeeps

-----------------------------------------------------------------------------
(* The dispatcher, the caches and the counters.                            *)

(* Writing one entry of one process's token cache keeps its type.           *)
LEMMA CacheWrite ==
    ASSUME NEW f \in [Procs -> [Jobs -> 0..MaxToken]], NEW p \in Procs,
           NEW m \in Jobs, NEW q \in 0..MaxToken
    PROVE  [f EXCEPT ![p][m] = q] \in [Procs -> [Jobs -> 0..MaxToken]]
<1>1. [f[p] EXCEPT ![m] = q] \in [Jobs -> 0..MaxToken]
  OBVIOUS
<1>2. QED
  BY <1>1

(* Every step keeps the types of the processes' caches.                     *)
LEMMA ProcessTypeStep ==
    ASSUME IInv, Next
    PROVE  ProcessTypeOK'
<1> USE DEF IInv, ProcessTypeOK
<1>1. CASE UNCHANGED <<disp, memVars>>
  BY <1>1 DEF memVars
<1>2. ASSUME NEW p \in Procs, DispatchStep(p) PROVE ProcessTypeOK'
  <2>1. UNCHANGED memVars
    BY <1>2 DEF DispatchStep, ListPendingOutbox, DispatchEnqueue,
                MarkOutboxDispatched
  <2>2. ASSUME NEW m \in Jobs, ListPendingOutbox(p, m) PROVE ProcessTypeOK'
    BY <2>1, <2>2 DEF ListPendingOutbox, memVars
  <2>3. CASE DispatchEnqueue(p)
    BY <2>1, <2>3 DEF DispatchEnqueue, memVars
  <2>4. CASE MarkOutboxDispatched(p)
    BY <2>1, <2>4 DEF MarkOutboxDispatched, memVars
  <2>5. QED
    BY <1>2, <2>2, <2>3, <2>4 DEF DispatchStep
<1>3. ASSUME NEW p \in Procs, DispatchFails(p) PROVE ProcessTypeOK'
  BY <1>3 DEF DispatchFails, memVars
<1>4. ASSUME NEW p \in Procs, Crash(p) PROVE ProcessTypeOK'
  BY <1>4, DeliveryAssumption DEF Crash
<1>5. ASSUME NEW w \in Workers, RestoreState(w) PROVE ProcessTypeOK'
  <2>1. job[w] \in Jobs /\ tok[w] \in 1..MaxToken /\ ProcOf[w] \in Procs
    BY <1>5, DeliveryAssumption DEF RestoreState, WorkerInv, WorkersBound, Bound
  <2>2. CASE UNCHANGED memVars
    BY <1>5, <2>2 DEF RestoreState, memVars
  <2>3. ASSUME NEW s, s \in [n : {Cardinality(rows[job[w]])},
                             last : Results \cup {NoResult}],
               Restores(s, job[w]), getOrSet(w, s), UNCHANGED disp
        PROVE  ProcessTypeOK'
    <3>1. s \in States
      BY <2>1, <2>3, Values, FS_EmptySet, FS_CardinalityType
         DEF DatabaseInv, NumbersAreKeys, DatabaseTypeOK, Restores, States
    <3>2. QED
      <4>1. CASE UNCHANGED memVars
        BY <2>3, <4>1 DEF memVars
      <4>2. CASE /\ cache' = [cache EXCEPT ![ProcOf[w]][job[w]] = tok[w]]
                 /\ heap' = [heap EXCEPT ![tok[w]] = s]
        <5>1. tok[w] \in 0..MaxToken
          BY <2>1, DeliveryAssumption
        <5>2. cache' \in [Procs -> [Jobs -> 0..MaxToken]]
          BY <2>1, <4>2, <5>1, CacheWrite
        <5>3. QED
          BY <2>3, <3>1, <4>2, <5>2
      <4>3. QED
        BY <2>3, <4>1, <4>2 DEF getOrSet
  <2>4. QED
    BY <1>5, <2>2, <2>3 DEF RestoreState
<1>6. ASSUME NEW w \in Workers, RecordAttempt(w) PROVE ProcessTypeOK'
  BY <1>6, Values DEF RecordAttempt, WorkerInv, WorkersBound, Bound,
                      WorkerTypeOK, Holding
<1>7. ASSUME NEW w \in Workers, Ack(w) PROVE ProcessTypeOK'
  <2>1. job[w] \in Jobs /\ ProcOf[w] \in Procs
    BY <1>7, DeliveryAssumption DEF Ack, WorkerInv, WorkersBound, Bound
  <2>2. QED
    <3>1. 0 \in 0..MaxToken
      BY DeliveryAssumption
    <3>2. cache' \in [Procs -> [Jobs -> 0..MaxToken]]
      <4>1. CASE UNCHANGED cache
        BY <4>1
      <4>2. CASE cache' = [cache EXCEPT ![ProcOf[w]][job[w]] = 0]
        BY <2>1, <3>1, <4>2, CacheWrite
      <4>3. QED
        BY <1>7, <4>1, <4>2 DEF Ack, Forget
    <3>3. QED
      BY <1>7, <3>2 DEF Ack
<1>8. ASSUME NEW w \in Workers, WorkerStep(w) PROVE ProcessTypeOK'
  BY <1>1, <1>5, <1>6, <1>7, <1>8
     DEF WorkerStep, LoadStatus, CheckSuppression, RecordSuppressed,
         BeginAttempt, Deliver, EvaluateOutcome, ReadLatest, PersistOutcome,
         Release
<1>9. CASE FaultStep
  BY <1>1, <1>3, <1>4, <1>9
     DEF FaultStep, LoadFails, HoldIfMemberDisabled, SuppressionUnknown,
         DeferForPermit, Defer, Panic, PersistReplyLost, QueueCallFails,
         AckReplyLost, SetSuppression
<1>10. QED
  BY <1>1, <1>2, <1>8, <1>9
     DEF Next, Accept, RetryComesDue, ClaimStep, Claim

(* Every step keeps the types of the history variables.                     *)
LEMMA HistoryTypeStep ==
    ASSUME IInv, Next
    PROVE  HistoryTypeOK'
<1> USE DEF IInv, HistoryTypeOK
<1>1. CASE UNCHANGED history
  BY <1>1 DEF history
<1>2. CASE (Fault \/ Delay) /\ UNCHANGED <<sends, accepts>>
  BY <1>2, DeliveryAssumption DEF Fault, Delay
<1>3. ASSUME NEW w \in Workers, NEW r \in Results, Deliver(w, r)
      PROVE  HistoryTypeOK'
  <2>1. job[w] \in Jobs
    BY <1>3 DEF Deliver, WorkerInv, WorkersBound, Bound
  <2>2. QED
    BY <1>3, <2>1 DEF Deliver
<1>4. ASSUME NEW w \in Workers, WorkerStep(w) PROVE HistoryTypeOK'
  BY <1>1, <1>3, <1>4
     DEF WorkerStep, LoadStatus, RestoreState, CheckSuppression,
         RecordSuppressed, BeginAttempt, RecordAttempt, EvaluateOutcome,
         ReadLatest, PersistOutcome, Ack, Release
<1>5. CASE FaultStep
  BY <1>2, <1>5
     DEF FaultStep, DispatchFails, Crash, LoadFails, HoldIfMemberDisabled,
         SuppressionUnknown, DeferForPermit, Defer, Panic, PersistReplyLost,
         QueueCallFails, AckReplyLost, SetSuppression
<1>6. CASE ClaimStep
  <2>1. (Fault \/ UNCHANGED <<faults, delays>>) /\ UNCHANGED <<sends, accepts>>
    BY <1>6 DEF ClaimStep, Claim
  <2>2. QED
    BY <1>1, <1>2, <2>1 DEF history
<1>7. QED
  BY <1>1, <1>4, <1>5, <1>6
     DEF Next, Accept, RetryComesDue, DispatchStep, ListPendingOutbox,
         DispatchEnqueue, MarkOutboxDispatched

-----------------------------------------------------------------------------
(* The theorems.                                                           *)

(* The invariant holds of the empty system.                                 *)
LEMMA InitEstablishes == Init => IInv
<1> SUFFICES ASSUME Init PROVE IInv
  OBVIOUS
<1>1. QueueInv
  BY DEF Init, QueueInit, QueueInv, QueueTypeOK
<1>2. DatabaseInv
  BY FS_EmptySet DEF Init, DatabaseInv, DatabaseTypeOK, NumbersAreKeys,
                     StatusMatchesRows, Statuses
<1>3. ProcessTypeOK
  BY Values, DeliveryAssumption DEF Init, ProcessTypeOK
<1>4. WorkerInv
  BY Values, DeliveryAssumption
     DEF Init, WorkerInv, WorkerTypeOK, WorkersBound, Bound, Places, Statuses,
         Verdicts, Holding
<1>5. HistoryTypeOK
  BY DeliveryAssumption DEF Init, HistoryTypeOK
<1>6. QED
  BY <1>1, <1>2, <1>3, <1>4, <1>5 DEF IInv

(* A step that changes nothing keeps the invariant.                         *)
LEMMA StutterKeeps ==
    ASSUME IInv, UNCHANGED vars
    PROVE  IInv'
BY DEF IInv, vars, queueVars, pgVars, memVars, workerVars, history, QueueInv,
   QueueTypeOK, DatabaseInv, DatabaseTypeOK, NumbersAreKeys,
   StatusMatchesRows, ProcessTypeOK, WorkerInv, WorkerTypeOK, WorkersBound,
   HistoryTypeOK

\* IInv is inductive: no step of any worker, dispatcher or fault leaves it.
THEOREM InvariantHolds == Spec => []IInv
<1>1. IInv /\ [Next]_vars => IInv'
  BY QueueInvStep, DatabaseInvStep, ProcessTypeStep, WorkerInvStep,
     HistoryTypeStep, StutterKeeps DEF IInv
<1>2. QED
  BY <1>1, InitEstablishes, PTL DEF Spec

\* Type correctness of the whole pipeline.
THEOREM DeliveryTypeCorrect == Spec => []TypeOK
<1>1. IInv => TypeOK
  BY DEF IInv, TypeOK, QueueInv, DatabaseInv, WorkerInv
<1>2. QED
  BY <1>1, InvariantHolds, PTL

\* messages.status agrees with delivery_attempts and with the recorded
\* suppressions in every reachable state of every deployment.
THEOREM StatusAndRowsAgree == Spec => []StatusMatchesRows
<1>1. IInv => StatusMatchesRows
  BY DEF IInv, DatabaseInv
<1>2. QED
  BY <1>1, InvariantHolds, PTL

\* No step rewrites, removes or duplicates a stored attempt.
THEOREM HistoryIsImmutable == Spec => AttemptsAreImmutable
<1> DEFINE Kept == \A m \in Jobs : \A x \in rows[m] :
                      {y \in rows'[m] : y[1] = x[1]} = {x}
<1>1. ASSUME IInv, IInv', [Next]_vars PROVE Kept
  <2>1. ASSUME NEW w \in Workers, pc[w] = "persist", StoreOutcome(w)
        PROVE  \A m \in Jobs : rows[m] \subseteq rows'[m]
    BY <1>1, <2>1 DEF StoreOutcome, IInv, DatabaseInv, DatabaseTypeOK
  <2>2. \A m \in Jobs : rows[m] \subseteq rows'[m]
    BY <1>1, <2>1, DatabaseCases
       DEF Accept, RecordSuppressed, vars, pgVars
  <2>3. QED
    BY <1>1, <2>2 DEF IInv, DatabaseInv, NumbersAreKeys
<1>2. IInv /\ IInv' /\ [Next]_vars => [Kept]_vars
  BY <1>1
<1>3. QED
  BY <1>2, InvariantHolds, PTL DEF Spec, AttemptsAreImmutable

\* The pipeline is a client of the queue's contract: its steps change the
\* queue only by the contract's operations, so that what RedisQueue and
\* MemoryQueue implement is all that Delivery assumes of them.
THEOREM PipelineUsesContract == Spec => QueueSpec
<1>1. Init => QueueInit
  BY DEF Init
<1>2. ASSUME IInv, [Next]_vars PROVE [QueueNext]_queueVars
  <2>1. ASSUME NEW m \in Jobs, ComeDue({m})
        PROVE  \E S \in SUBSET deferred : ComeDue(S)
    BY <2>1 DEF ComeDue
  <2>2. CASE Next
    BY <1>2, <2>1, <2>2, QueueCases DEF QueueNext
  <2>3. CASE UNCHANGED vars
    BY <2>3 DEF vars
  <2>4. QED
    BY <1>2, <2>2, <2>3
<1>3. QED
  BY <1>1, <1>2, InvariantHolds, PTL DEF Spec, QueueSpec

-----------------------------------------------------------------------------
(* Leases that outlast the work.                                           *)

\* A claim is taken back only when nobody acts on it any more, and a panic
\* strikes a worker, if at all, before its attempt is in the retry.State.
LeasesLast == ~LapseLive /\ PanicPlaces \subseteq {"smtp", "append"}

\* A busy worker owns its job, under a token nobody else has.
ClaimsInv ==
    /\ \A w \in Workers : pc[w] # "idle" =>
          job[w] \in active /\ owner[job[w]] = tok[w] /\ tok[w] <= issued
    /\ \A v, w \in Workers : v # w /\ pc[v] # "idle" /\ pc[w] # "idle" =>
          job[v] # job[w] /\ tok[v] # tok[w]

\* What a worker does to its job and its own variables.
WorkerFault(w) ==
    \/ LoadFails(w) \/ HoldIfMemberDisabled(w) \/ SuppressionUnknown(w)
    \/ DeferForPermit(w) \/ Panic(w) \/ PersistReplyLost(w)
    \/ QueueCallFails(w) \/ AckReplyLost(w)

Turn(w) == WorkerStep(w) \/ WorkerFault(w)

\* The steps of the dispatcher, of time and of the tenant.
Quiet ==
    /\ UNCHANGED <<workerVars, memVars, status, rows, owner, issued, sends,
                   accepts, faults>>
    /\ active \subseteq active'

Still(v) == /\ pc'[v] = pc[v] /\ job'[v] = job[v] /\ tok'[v] = tok[v]
            /\ ref'[v] = ref[v] /\ res'[v] = res[v] /\ base'[v] = base[v]
            /\ verdict'[v] = verdict[v]

(* Whose step a step of the system is.                                      *)
LEMMA NextCases ==
    ASSUME Next
    PROVE  \/ Quiet
           \/ \E m \in Jobs : Accept(m)
           \/ \E w \in Workers, E \in SUBSET Owned, m \in Jobs : Claim(w, E, m)
           \/ \E w \in Workers : Turn(w)
           \/ \E p \in Procs : Crash(p)
<1>1. ASSUME NEW p \in Procs, DispatchStep(p) \/ DispatchFails(p) PROVE Quiet
  BY <1>1 DEF DispatchStep, DispatchFails, ListPendingOutbox, DispatchEnqueue,
              MarkOutboxDispatched, EnqueueJob, Delay, Quiet, queueVars, pgVars,
              history
<1>2. ASSUME NEW m \in Jobs, RetryComesDue(m) PROVE Quiet
  BY <1>2 DEF RetryComesDue, ComeDue, Quiet, history
<1>3. ASSUME NEW m \in Jobs, NEW b, SetSuppression(m, b) PROVE Quiet
  BY <1>3 DEF SetSuppression, Delay, Quiet, queueVars
<1>4. QED
  BY <1>1, <1>2, <1>3 DEF Next, FaultStep, ClaimStep, Turn, WorkerFault

(* A worker's turn leaves the other workers' variables alone.               *)
LEMMA OthersStill ==
    ASSUME IInv, NEW w \in Workers, Turn(w), NEW v \in Workers, v # w
    PROVE  Still(v)
<1> USE DEF IInv, WorkerInv, WorkerTypeOK, Still, Goto, ToRelease
<1>1. CASE Idle({w})
  BY <1>1 DEF Idle
<1>2. CASE LoadStatus(w) \/ CheckSuppression(w) \/ RecordSuppressed(w) \/ BeginAttempt(w)
  BY <1>2 DEF LoadStatus, CheckSuppression, RecordSuppressed, BeginAttempt
<1>3. CASE RestoreState(w)
  BY <1>3 DEF RestoreState, getOrSet
<1>4. CASE \E r \in Results : Deliver(w, r)
  BY <1>4 DEF Deliver
<1>5. CASE RecordAttempt(w) \/ EvaluateOutcome(w) \/ ReadLatest(w)
  BY <1>5 DEF RecordAttempt, EvaluateOutcome, ReadLatest
<1>6. CASE PersistOutcome(w) \/ PersistReplyLost(w)
  BY <1>6 DEF PersistOutcome, PersistReplyLost, workerVars
<1>7. CASE LoadFails(w) \/ HoldIfMemberDisabled(w) \/ SuppressionUnknown(w) \/ DeferForPermit(w)
  BY <1>7 DEF LoadFails, HoldIfMemberDisabled, SuppressionUnknown, DeferForPermit, Defer
<1>8. CASE Panic(w)
  BY <1>1, <1>8 DEF Panic
<1>9. QED
  BY <1>1, <1>2, <1>3, <1>4, <1>5, <1>6, <1>7, <1>8
     DEF Turn, WorkerStep, WorkerFault, Ack, AckReplyLost, Release, QueueCallFails

(* On its turn a worker keeps its job and claim, or finishes with them.     *)
LEMMA OwnTurn ==
    ASSUME IInv, NEW w \in Workers, Turn(w)
    PROVE  /\ pc[w] # "idle"
           /\ \/ /\ pc'[w] # "idle" /\ job'[w] = job[w] /\ tok'[w] = tok[w]
                 /\ UNCHANGED queueVars
              \/ /\ pc'[w] = "idle"
                 /\ \/ UNCHANGED queueVars
                    \/ /\ Current(w) /\ UNCHANGED issued
                       /\ owner' = [owner EXCEPT ![job[w]] = 0]
                       /\ active' = active \/ active' = active \ {job[w]}
<1> USE DEF IInv, WorkerInv, WorkerTypeOK, Goto, ToRelease
<1>1. CASE Idle({w}) /\ UNCHANGED queueVars /\ pc[w] # "idle"
  BY <1>1 DEF Idle
<1>2. CASE Ack(w) \/ AckReplyLost(w)
  BY <1>1, <1>2 DEF Ack, AckReplyLost, AckJob, Idle
<1>3. CASE Release(w)
  BY <1>1, <1>3 DEF Release, ReleaseJob, Idle
<1>4. CASE LoadStatus(w) \/ CheckSuppression(w) \/ RecordSuppressed(w) \/ BeginAttempt(w)
  BY <1>4 DEF LoadStatus, CheckSuppression, RecordSuppressed, BeginAttempt
<1>5. CASE RestoreState(w)
  BY <1>5 DEF RestoreState
<1>6. CASE \E r \in Results : Deliver(w, r)
  BY <1>6 DEF Deliver
<1>7. CASE RecordAttempt(w) \/ EvaluateOutcome(w) \/ ReadLatest(w)
  BY <1>7 DEF RecordAttempt, EvaluateOutcome, ReadLatest
<1>8. CASE PersistOutcome(w) \/ PersistReplyLost(w)
  BY <1>8 DEF PersistOutcome, PersistReplyLost, workerVars
<1>9. CASE LoadFails(w) \/ HoldIfMemberDisabled(w) \/ SuppressionUnknown(w) \/ DeferForPermit(w)
  BY <1>9 DEF LoadFails, HoldIfMemberDisabled, SuppressionUnknown, DeferForPermit, Defer
<1>10. CASE Panic(w)
  BY <1>1, <1>10, DeliveryAssumption DEF Panic
<1>11. QED
  BY <1>1, <1>2, <1>3, <1>4, <1>5, <1>6, <1>7, <1>8, <1>9, <1>10
     DEF Turn, WorkerStep, WorkerFault, QueueCallFails

(* A claim is exclusive as long as leases outlast the work.                 *)
LEMMA ClaimsInvStep ==
    ASSUME LeasesLast, IInv, ClaimsInv, Next
    PROVE  ClaimsInv'
<1> USE DEF ClaimsInv
<1>0. /\ issued \in Nat /\ owner \in [Jobs -> Nat]
      /\ \A w \in Workers : /\ tok[w] \in Nat
                            /\ pc[w] # "idle" => job[w] \in Jobs /\ tok[w] # 0
  BY DeliveryAssumption DEF IInv, QueueInv, QueueTypeOK, WorkerInv, WorkerTypeOK, WorkersBound, Bound
<1>1. CASE Quiet
  BY <1>1 DEF Quiet, workerVars
<1>2. ASSUME NEW m \in Jobs, Accept(m) PROVE ClaimsInv'
  BY <1>2 DEF Accept, workerVars, queueVars
<1>3. ASSUME NEW w \in Workers, NEW E \in SUBSET Owned, NEW m \in Jobs, Claim(w, E, m)
      PROVE  ClaimsInv'
  <2>1. \A e \in E : ~Attended(e)
    BY <1>3 DEF Claim, LeasesLast
  <2>2. \A v \in Workers : pc[v] # "idle" => job[v] # m /\ job[v] \notin E
    BY <1>0, <1>3, <2>1 DEF Claim, ClaimJob, Attended
  <2>3. /\ \A v \in Workers \ {w} : pc'[v] = pc[v] /\ job'[v] = job[v] /\ tok'[v] = tok[v]
        /\ pc'[w] = "load" /\ job'[w] = m /\ tok'[w] = issued + 1
    BY <1>3 DEF Claim, Goto, IInv, WorkerInv, WorkerTypeOK
  <2>4. /\ issued' = issued + 1 /\ active' = active /\ m \in active
        /\ owner'[m] = issued + 1
        /\ \A k \in Jobs : k # m /\ k \notin E => owner'[k] = owner[k]
    BY <1>3 DEF Claim, ClaimJob
  <2>5. QED
    BY <1>0, <2>2, <2>3, <2>4
<1>4. ASSUME NEW w \in Workers, Turn(w) PROVE ClaimsInv'
  <2>1. \A v \in Workers \ {w} : pc'[v] = pc[v] /\ job'[v] = job[v] /\ tok'[v] = tok[v]
    BY <1>4, OthersStill DEF Still
  <2>2. CASE pc'[w] # "idle" /\ job'[w] = job[w] /\ tok'[w] = tok[w] /\ UNCHANGED queueVars
    BY <1>4, <2>1, <2>2, OwnTurn DEF queueVars
  <2>3. CASE pc'[w] = "idle" /\ UNCHANGED queueVars
    BY <2>1, <2>3 DEF queueVars
  <2>4. CASE /\ pc'[w] = "idle" /\ UNCHANGED issued
             /\ owner' = [owner EXCEPT ![job[w]] = 0]
             /\ active' = active \/ active' = active \ {job[w]}
    <3>1. pc[w] # "idle"
      BY <1>4, OwnTurn
    <3>2. QED
      BY <1>0, <2>1, <2>4, <3>1
  <2>5. QED
    BY <1>4, <2>2, <2>3, <2>4, OwnTurn
<1>5. ASSUME NEW p \in Procs, Crash(p) PROVE ClaimsInv'
  BY <1>5 DEF Crash, Idle, queueVars, IInv, WorkerInv, WorkerTypeOK
<1>6. QED
  BY <1>1, <1>2, <1>3, <1>4, <1>5, NextCases

\* Every cached state has a cell of its own, which a worker reaches only
\* through the cache entry of its process and its job.
CellsInv ==
    /\ \A p \in Procs, m \in Jobs : cache[p][m] <= issued
    /\ \A w \in Workers : pc[w] \in {"load", "restore"} =>
          \A p \in Procs, m \in Jobs : cache[p][m] # tok[w]
    /\ \A p, q \in Procs, m, k \in Jobs :
          cache[p][m] = cache[q][k] => cache[p][m] = 0 \/ (p = q /\ m = k)
    /\ \A w \in Workers : pc[w] \in Holding =>
          ref[w] = cache[ProcOf[w]][job[w]]

\* What a worker does to the retry states on its turn: nothing, look up the
\* cached one, cache a restored one, append to it, or forget it.
Looks(w) ==
    /\ UNCHANGED memVars
    /\ pc'[w] \in {"load", "restore"} => pc[w] \in {"load", "restore"}
    /\ pc'[w] \in Holding => pc[w] \in Holding /\ ref'[w] = ref[w]

Finds(w) ==
    /\ UNCHANGED memVars
    /\ pc[w] = "restore" /\ pc'[w] = "suppress"
    /\ cache[ProcOf[w]][job[w]] # 0
    /\ ref'[w] = cache[ProcOf[w]][job[w]]

Restoring(w, s) ==
    /\ pc[w] = "restore" /\ pc'[w] = "suppress"
    /\ cache[ProcOf[w]][job[w]] = 0
    /\ ref'[w] = tok[w] /\ Restores(s, job[w])
    /\ cache' = [cache EXCEPT ![ProcOf[w]][job[w]] = tok[w]]
    /\ heap' = [heap EXCEPT ![tok[w]] = s]

Forgets(w) ==
    /\ pc'[w] = "idle"
    /\ cache' = [cache EXCEPT ![ProcOf[w]][job[w]] = 0]
    /\ UNCHANGED heap

(* These are all the things a turn does to the retry states.                *)
LEMMA CellCases ==
    ASSUME IInv, NEW w \in Workers, Turn(w)
    PROVE  \/ Looks(w) \/ Finds(w) \/ \E s \in States : Restoring(w, s)
           \/ RecordAttempt(w) \/ Forgets(w)
<1> USE DEF IInv, WorkerInv, WorkerTypeOK, Goto, ToRelease
<1>1. CASE Idle({w}) /\ UNCHANGED memVars
  BY <1>1 DEF Idle, Looks, Holding
<1>2. CASE Ack(w)
  <2>1. pc'[w] = "idle"
    BY <1>2 DEF Ack, Idle
  <2>2. QED
    BY <1>1, <1>2, <2>1 DEF Ack, Forget, Forgets, memVars
<1>3. CASE LoadStatus(w) \/ CheckSuppression(w) \/ RecordSuppressed(w) \/ BeginAttempt(w)
  BY <1>3 DEF LoadStatus, CheckSuppression, RecordSuppressed, BeginAttempt,
              Looks, Holding
<1>4. CASE RestoreState(w)
  <2>1. CASE Goto(w, "release")
    BY <1>4, <2>1 DEF RestoreState, Looks, Holding
  <2>2. ASSUME NEW s \in [n : {Cardinality(rows[job[w]])}, last : Results \cup {NoResult}],
               Restores(s, job[w]), getOrSet(w, s), Goto(w, "suppress")
        PROVE  Finds(w) \/ Restoring(w, s)
    BY <1>4, <2>2 DEF RestoreState, getOrSet, Finds, Restoring
  <2>3. ASSUME NEW s \in [n : {Cardinality(rows[job[w]])}, last : Results \cup {NoResult}],
               Restores(s, job[w])
        PROVE  s \in States
    <3>1. job[w] \in Jobs
      BY <1>4 DEF RestoreState, WorkersBound, Bound
    <3>2. QED
      BY <2>3, <3>1, Values, FS_EmptySet, FS_CardinalityType
         DEF DatabaseInv, NumbersAreKeys, DatabaseTypeOK, Restores, States
  <2>4. QED
    BY <1>4, <2>1, <2>2, <2>3 DEF RestoreState
<1>5. CASE \E r \in Results : Deliver(w, r)
  BY <1>5 DEF Deliver, Looks, Holding
<1>6. CASE EvaluateOutcome(w) \/ ReadLatest(w)
  BY <1>6 DEF EvaluateOutcome, ReadLatest, Looks, Holding
<1>7. CASE PersistOutcome(w) \/ PersistReplyLost(w)
  BY <1>7 DEF PersistOutcome, PersistReplyLost, workerVars, Looks, Holding
<1>8. CASE LoadFails(w) \/ HoldIfMemberDisabled(w) \/ SuppressionUnknown(w) \/ DeferForPermit(w)
  BY <1>8 DEF LoadFails, HoldIfMemberDisabled, SuppressionUnknown,
              DeferForPermit, Defer, Looks, Holding
<1>9. CASE Panic(w)
  BY <1>1, <1>9 DEF Panic, Looks, Holding
<1>10. QED
  BY <1>1, <1>2, <1>3, <1>4, <1>5, <1>6, <1>7, <1>8, <1>9
     DEF Turn, WorkerStep, WorkerFault, AckReplyLost, Release, QueueCallFails

(* Types of what the invariants about cells speak of.                       *)
LEMMA CellTypes ==
    ASSUME IInv
    PROVE  /\ issued \in Nat /\ MaxToken \in Nat
           /\ cache \in [Procs -> [Jobs -> 0..MaxToken]]
           /\ heap \in [1..MaxToken -> States]
           /\ \A w \in Workers :
                /\ ProcOf[w] \in Procs
                /\ pc[w] # "idle" => job[w] \in Jobs /\ tok[w] \in 1..MaxToken
                /\ pc[w] \in Holding => /\ pc[w] # "idle"
                                        /\ ref[w] \in 1..MaxToken
BY DeliveryAssumption DEF IInv, QueueInv, QueueTypeOK, ProcessTypeOK,
   WorkerInv, WorkersBound, Bound, Holding

(* On its turn a worker leaves alone the cells that are not its own.        *)
LEMMA OtherCells ==
    ASSUME IInv, ClaimsInv, CellsInv, NEW w \in Workers, Turn(w),
           NEW p \in Procs, NEW m \in Jobs, p # ProcOf[w] \/ m # job[w]
    PROVE  /\ cache'[p][m] = cache[p][m]
           /\ cache[p][m] # 0 => heap'[cache[p][m]] = heap[cache[p][m]]
<1>0. cache[p][m] # 0 => cache[p][m] \in 1..MaxToken
  BY CellTypes
<1>1. CASE UNCHANGED memVars
  BY <1>1 DEF memVars
<1>2. ASSUME NEW s \in States, Restoring(w, s)
      PROVE  /\ cache'[p][m] = cache[p][m]
             /\ cache[p][m] # 0 => heap'[cache[p][m]] = heap[cache[p][m]]
  <2>1. cache'[p][m] = cache[p][m]
    BY <1>2, CellTypes DEF Restoring
  <2>2. cache[p][m] # tok[w]
    BY <1>2 DEF Restoring, CellsInv
  <2>3. QED
    BY <1>0, <1>2, <2>1, <2>2, CellTypes DEF Restoring
<1>3. CASE RecordAttempt(w)
  <2>1. ref[w] = cache[ProcOf[w]][job[w]] /\ ref[w] # 0 /\ job[w] \in Jobs
    BY <1>3, CellTypes DEF CellsInv, RecordAttempt, Holding
  <2>2. cache[p][m] # 0 => cache[p][m] # ref[w]
    BY <2>1, CellTypes DEF CellsInv
  <2>3. QED
    BY <1>0, <1>3, <2>2, CellTypes DEF RecordAttempt
<1>4. CASE Forgets(w)
  BY <1>4, CellTypes DEF Forgets
<1>5. QED
  BY <1>1, <1>2, <1>3, <1>4, CellCases DEF Looks, Finds

(* Cells stay private to their cache entries.                               *)
LEMMA CellsInvStep ==
    ASSUME LeasesLast, IInv, ClaimsInv, CellsInv, Next
    PROVE  CellsInv'
<1>1. CASE Quiet
  BY <1>1 DEF Quiet, CellsInv, workerVars, memVars
<1>2. ASSUME NEW m \in Jobs, Accept(m) PROVE CellsInv'
  BY <1>2 DEF Accept, CellsInv, workerVars, memVars, queueVars
<1>3. ASSUME NEW w \in Workers, NEW E \in SUBSET Owned, NEW m \in Jobs, Claim(w, E, m)
      PROVE  CellsInv'
  <2>1. /\ \A v \in Workers \ {w} : pc'[v] = pc[v] /\ job'[v] = job[v]
                                    /\ tok'[v] = tok[v] /\ ref'[v] = ref[v]
        /\ pc'[w] = "load" /\ tok'[w] = issued + 1
        /\ UNCHANGED cache /\ issued' = issued + 1
    BY <1>3 DEF Claim, ClaimJob, Goto, memVars, IInv, WorkerInv, WorkerTypeOK
  <2>2. \A p \in Procs, k \in Jobs : cache[p][k] \in Nat /\ cache[p][k] <= issued
    BY CellTypes DEF CellsInv
  <2>3. \A p \in Procs, k \in Jobs : cache'[p][k] <= issued'
    BY <2>1, <2>2, CellTypes
  <2>4. ASSUME NEW v \in Workers, pc'[v] \in {"load", "restore"},
               NEW p \in Procs, NEW k \in Jobs
        PROVE  cache'[p][k] # tok'[v]
    <3>1. CASE v = w
      BY <2>1, <2>2, <3>1, CellTypes
    <3>2. CASE v # w
      BY <2>1, <2>4, <3>2 DEF CellsInv
    <3>3. QED
      BY <3>1, <3>2
  <2>5. ASSUME NEW v \in Workers, pc'[v] \in Holding
        PROVE  ref'[v] = cache'[ProcOf[v]][job'[v]]
    BY <2>1, <2>5 DEF CellsInv, Holding
  <2>6. QED
    BY <2>1, <2>3, <2>4, <2>5 DEF CellsInv
<1>4. ASSUME NEW w \in Workers, Turn(w) PROVE CellsInv'
  <2>0. /\ issued' = issued /\ pc[w] # "idle"
        /\ pc'[w] # "idle" => job'[w] = job[w] /\ tok'[w] = tok[w]
    BY <1>4, OwnTurn DEF queueVars
  <2>1. \A v \in Workers \ {w} : pc'[v] = pc[v] /\ job'[v] = job[v]
                                 /\ tok'[v] = tok[v] /\ ref'[v] = ref[v]
    BY <1>4, OthersStill DEF Still
  <2>2. CASE Looks(w)
    BY <2>0, <2>1, <2>2 DEF Looks, CellsInv, memVars, Holding
  <2>3. CASE Finds(w)
    BY <2>0, <2>1, <2>3 DEF Finds, CellsInv, memVars, Holding
  <2>4. CASE RecordAttempt(w)
    BY <2>0, <2>1, <2>4 DEF RecordAttempt, Goto, CellsInv, Holding, IInv,
                            WorkerInv, WorkerTypeOK
  <2>5. ASSUME NEW s \in States, Restoring(w, s) PROVE CellsInv'
    <3> DEFINE q == ProcOf[w]
               k == job[w]
    <3>1. /\ cache'[q][k] = tok[w] /\ tok[w] <= issued /\ tok[w] # 0
          /\ \A p \in Procs, m \in Jobs : p # q \/ m # k => cache'[p][m] = cache[p][m]
      BY <2>0, <2>5, CellTypes DEF Restoring, ClaimsInv
    <3>2. \A p \in Procs, m \in Jobs : cache[p][m] # tok[w]
      BY <2>5 DEF Restoring, CellsInv
    <3>3. \A v \in Workers \ {w} : pc[v] # "idle" => job[v] # k /\ tok[v] # tok[w]
      BY <2>0 DEF ClaimsInv
    <3>4. \A p \in Procs, m \in Jobs : cache'[p][m] <= issued'
      BY <2>0, <3>1 DEF CellsInv
    <3>5. ASSUME NEW v \in Workers, pc'[v] \in {"load", "restore"},
                 NEW p \in Procs, NEW m \in Jobs
          PROVE  cache'[p][m] # tok'[v]
      BY <2>1, <2>5, <3>1, <3>3, <3>5 DEF CellsInv, Restoring
    <3>6. ASSUME NEW p \in Procs, NEW p2 \in Procs, NEW m \in Jobs, NEW m2 \in Jobs,
                 cache'[p][m] = cache'[p2][m2]
          PROVE  cache'[p][m] = 0 \/ (p = p2 /\ m = m2)
      BY <3>1, <3>2, <3>6 DEF CellsInv
    <3>7. ASSUME NEW v \in Workers, pc'[v] \in Holding
          PROVE  ref'[v] = cache'[ProcOf[v]][job'[v]]
      <4>1. CASE v = w
        BY <2>0, <2>5, <3>1, <4>1 DEF Restoring
      <4>2. CASE v # w
        BY <2>1, <3>1, <3>3, <3>7, <4>2, CellTypes DEF CellsInv
      <4>3. QED BY <4>1, <4>2
    <3>8. QED
      BY <3>4, <3>5, <3>6, <3>7 DEF CellsInv
  <2>6. CASE Forgets(w)
    <3>1. /\ cache'[ProcOf[w]][job[w]] = 0
          /\ \A p \in Procs, m \in Jobs :
                p # ProcOf[w] \/ m # job[w] => cache'[p][m] = cache[p][m]
      BY <2>0, <2>6, CellTypes DEF Forgets
    <3>2. \A v \in Workers \ {w} : pc[v] # "idle" => job[v] # job[w] /\ tok[v] # 0
      BY <2>0, CellTypes DEF ClaimsInv
    <3>3. /\ pc'[w] = "idle"
          /\ \A p \in Procs, m \in Jobs : cache'[p][m] = cache[p][m] \/ cache'[p][m] = 0
      BY <2>6, <3>1 DEF Forgets
    <3>4. \A p \in Procs, m \in Jobs : cache'[p][m] <= issued'
      <4>1. 0 <= issued
        BY CellTypes
      <4>2. QED
        BY <2>0, <3>3, <4>1 DEF CellsInv
    <3>5. ASSUME NEW v \in Workers, pc'[v] \in {"load", "restore"},
                 NEW p \in Procs, NEW m \in Jobs
          PROVE  cache'[p][m] # tok'[v]
      BY <2>1, <3>2, <3>3, <3>5 DEF CellsInv
    <3>6. ASSUME NEW p \in Procs, NEW p2 \in Procs, NEW m \in Jobs, NEW m2 \in Jobs,
                 cache'[p][m] = cache'[p2][m2]
          PROVE  cache'[p][m] = 0 \/ (p = p2 /\ m = m2)
      BY <3>3, <3>6 DEF CellsInv
    <3>7. ASSUME NEW v \in Workers, pc'[v] \in Holding
          PROVE  ref'[v] = cache'[ProcOf[v]][job'[v]]
      BY <2>1, <3>1, <3>2, <3>3, <3>7, CellTypes DEF CellsInv, Holding
    <3>8. QED
      BY <3>4, <3>5, <3>6, <3>7 DEF CellsInv
  <2>7. QED
    BY <1>4, <2>2, <2>3, <2>4, <2>5, <2>6, CellCases
<1>5. ASSUME NEW p \in Procs, Crash(p) PROVE CellsInv'
  <2>1. /\ issued' = issued
        /\ \A q \in Procs, m \in Jobs : cache'[q][m] = IF q = p THEN 0 ELSE cache[q][m]
        /\ \A v \in Workers :
              IF ProcOf[v] = p THEN pc'[v] = "idle"
              ELSE /\ pc'[v] = pc[v] /\ job'[v] = job[v]
                   /\ tok'[v] = tok[v] /\ ref'[v] = ref[v]
    BY <1>5, CellTypes DEF Crash, Idle, queueVars
  <2>2. \A v \in Workers : pc[v] # "idle" => tok[v] # 0
    BY CellTypes
  <2>3. \A q \in Procs, k \in Jobs : cache'[q][k] <= issued'
    <3>1. 0 <= issued
      BY CellTypes
    <3>2. QED
      BY <2>1, <3>1 DEF CellsInv
  <2>4. ASSUME NEW v \in Workers, pc'[v] \in {"load", "restore"},
               NEW q \in Procs, NEW k \in Jobs
        PROVE  cache'[q][k] # tok'[v]
    <3>1. pc[v] \in {"load", "restore"} /\ tok'[v] = tok[v]
      BY <2>1, <2>4
    <3>2. QED
      BY <2>1, <2>2, <3>1 DEF CellsInv
  <2>5. ASSUME NEW q \in Procs, NEW q2 \in Procs, NEW m \in Jobs, NEW m2 \in Jobs,
               cache'[q][m] = cache'[q2][m2]
        PROVE  cache'[q][m] = 0 \/ (q = q2 /\ m = m2)
    BY <2>1, <2>5 DEF CellsInv
  <2>6. ASSUME NEW v \in Workers, pc'[v] \in Holding
        PROVE  ref'[v] = cache'[ProcOf[v]][job'[v]]
    <3>1. /\ ProcOf[v] # p /\ pc[v] \in Holding
          /\ job'[v] = job[v] /\ ref'[v] = ref[v]
      BY <2>1, <2>6 DEF Holding
    <3>2. ProcOf[v] \in Procs /\ job[v] \in Jobs
      BY <3>1, CellTypes
    <3>3. QED
      BY <2>1, <3>1, <3>2 DEF CellsInv
  <2>7. QED
    BY <2>3, <2>4, <2>5, <2>6 DEF CellsInv
<1>6. QED
  BY <1>1, <1>2, <1>3, <1>4, <1>5, NextCases

-----------------------------------------------------------------------------
(* Attempts under a lasting lease.                                         *)

\* The states Coordinator.Attempt accepts, and where a recorded attempt waits
\* to be stored.
Open(s) == Evaluate(s) \in {"empty", "retryable"}
Reported == {"evaluate", "latest", "persist"}

\* Between BeginAttempt and the persist loop nobody else touches the state a
\* worker uses, so what it read of it is still so.
StageOK(w) ==
    LET s == heap[ref[w]] IN
    /\ pc[w] \in {"smtp", "append"} => Open(s)
    /\ pc[w] = "append" => base[w] = s
    /\ pc[w] \in Reported => s.n \in 1..MaxAttempts
    /\ pc[w] \in {"latest", "persist"} => verdict[w] = Evaluate(s)
    /\ pc[w] = "persist" => base[w] = s /\ res[w] = s.last

StagesInv == \A w \in Workers : StageOK(w)

\* A worker Acks finished messages only, and works on unfinished ones only,
\* save to store once more what made its message finished.
EndsOK(w) ==
    /\ pc[w] = "ack" => status[job[w]] \in Finished
    /\ pc[w] = "restore" => status[job[w]] \notin Finished
    /\ pc[w] \in Holding /\ status[job[w]] \in Finished =>
          pc[w] = "persist" /\ status[job[w]] = Outcome(w) /\ Duplicate(w)

\* A cached state is finished only if the message is, or if its worker is on
\* the way to store it.
CachedOK(p, m) ==
    cache[p][m] # 0 =>
        \/ status[m] \in Finished
        \/ Open(heap[cache[p][m]])
        \/ \E w \in Workers : ProcOf[w] = p /\ job[w] = m /\ pc[w] \in Reported

\* The rows of an unfinished message are temporary failures below the limit.
RowsOK(m) ==
    \A x \in rows[m] :
       /\ x[1] \in 1..MaxAttempts
       /\ status[m] \notin Finished => Decide(x[2]) = "retry" /\ x[1] < MaxAttempts

EndsInv ==
    /\ \A w \in Workers : EndsOK(w)
    /\ \A p \in Procs, m \in Jobs : CachedOK(p, m)
    /\ \A m \in Jobs : RowsOK(m)

\* What the proofs below carry from step to step.
WorkInv == IInv /\ ClaimsInv /\ CellsInv /\ StagesInv /\ EndsInv

(* What Evaluate and classifyDeliveryOutcome say of a state with attempts.  *)
LEMMA Outcomes ==
    ASSUME NEW s \in States
    PROVE  /\ Open(s) => Recordable(s) /\ s.n < MaxAttempts
           /\ Open(s) => s.last # "accepted"
           /\ s.n # 0 =>
                LET e == Evaluate(s)
                    o == classifyDeliveryOutcome(s.last, e = "exhausted")
                IN  /\ e = "exhausted" => Decide(s.last) = "retry"
                    /\ e = "retryable" => /\ o = "retrying" /\ Open(s)
                                          /\ Decide(s.last) = "retry"
                                          /\ s.n < MaxAttempts
                    /\ e # "retryable" => o \in Finished
                    /\ s.last = "accepted" => o = "delivered"
<1>1. s.n \in Nat /\ MaxAttempts \in Nat /\ MaxAttempts # 0
  BY Values, DeliveryAssumption
<1>2. /\ s.n = 0 => Evaluate(s) = "empty" /\ s.last = "none"
      /\ s.n # 0 /\ Decide(s.last) = "success" => Evaluate(s) = "succeeded"
      /\ s.n # 0 /\ Decide(s.last) = "failure" => Evaluate(s) = "failed"
      /\ s.n # 0 /\ Decide(s.last) = "retry" =>
            Evaluate(s) = IF s.n >= MaxAttempts THEN "exhausted" ELSE "retryable"
  BY <1>1 DEF Evaluate, States, NoResult
<1>3. /\ Decide(s.last) \in {"success", "failure", "retry"}
      /\ Decide(s.last) = "success" <=> s.last = "accepted"
  BY DeliveryAssumption DEF Decide
<1>4. Open(s) => Recordable(s) /\ s.n < MaxAttempts
  BY <1>1, <1>2, <1>3 DEF Open, Recordable
<1>5. Open(s) => s.last # "accepted"
  BY <1>1, <1>2, <1>3 DEF Open
<1>6. ASSUME s.n # 0
      PROVE  LET e == Evaluate(s)
                 o == classifyDeliveryOutcome(s.last, e = "exhausted")
             IN  /\ e = "exhausted" => Decide(s.last) = "retry"
                 /\ e = "retryable" => /\ o = "retrying" /\ Open(s)
                                       /\ Decide(s.last) = "retry"
                                       /\ s.n < MaxAttempts
                 /\ e # "retryable" => o \in Finished
                 /\ s.last = "accepted" => o = "delivered"
  <2>1. CASE Decide(s.last) = "success"
    BY <1>2, <1>3, <1>6, <2>1 DEF classifyDeliveryOutcome, Finished
  <2>2. CASE Decide(s.last) = "failure"
    BY <1>2, <1>3, <1>6, <2>2 DEF classifyDeliveryOutcome, Finished
  <2>3. CASE Decide(s.last) = "retry"
    BY <1>1, <1>2, <1>3, <1>6, <2>3 DEF classifyDeliveryOutcome, Finished, Open
  <2>4. QED
    BY <1>3, <2>1, <2>2, <2>3
<1>7. QED
  BY <1>4, <1>5, <1>6

(* What a busy worker's state, result and verdict are.                      *)
LEMMA WorkerTypes ==
    ASSUME IInv, NEW w \in Workers
    PROVE  /\ pc[w] \in Holding => heap[ref[w]] \in States
           /\ pc[w] = "append" => res[w] \in Results
           /\ base[w] \in States
BY CellTypes DEF IInv, WorkerInv, WorkerTypeOK, WorkersBound, Bound

(* The other workers find their states as they left them.                   *)
LEMMA OtherStates ==
    ASSUME IInv, ClaimsInv, CellsInv, NEW w \in Workers, Turn(w),
           NEW v \in Workers, v # w, pc[v] \in Holding
    PROVE  heap'[ref[v]] = heap[ref[v]]
<1>1. job[v] # job[w] /\ job[v] \in Jobs /\ ProcOf[v] \in Procs
  BY OwnTurn, CellTypes DEF ClaimsInv
<1>2. ref[v] = cache[ProcOf[v]][job[v]] /\ ref[v] # 0
  BY CellTypes DEF CellsInv
<1>3. QED
  BY <1>1, <1>2, OtherCells

(* A worker knows the state it works on, at every stage.                    *)
LEMMA StagesInvStep ==
    ASSUME LeasesLast, WorkInv, Next
    PROVE  StagesInv'
<1> USE DEF WorkInv
<1>1. CASE Quiet
  BY <1>1 DEF Quiet, StagesInv, StageOK, workerVars, memVars
<1>2. ASSUME NEW m \in Jobs, Accept(m) PROVE StagesInv'
  BY <1>2 DEF Accept, StagesInv, StageOK, workerVars, memVars
<1>3. ASSUME NEW w \in Workers, NEW E \in SUBSET Owned, NEW m \in Jobs, Claim(w, E, m)
      PROVE  StagesInv'
  BY <1>3 DEF Claim, Goto, memVars, StagesInv, StageOK, Reported, IInv,
              WorkerInv, WorkerTypeOK
<1>4. ASSUME NEW w \in Workers, Turn(w) PROVE StagesInv'
  <2>1. ASSUME NEW v \in Workers, v # w PROVE StageOK(v)'
    <3>1. pc[v] \in Holding => heap'[ref[v]] = heap[ref[v]]
      BY <1>4, <2>1, OtherStates
    <3>2. QED
      BY <1>4, <2>1, <3>1, OthersStill DEF StagesInv, StageOK, Still, Holding, Reported
  <2>2. StageOK(w)'
    <3> USE DEF IInv, WorkerInv, WorkerTypeOK, Goto, ToRelease, memVars
    <3>0. StageOK(w)
      BY DEF StagesInv
    <3>1. CASE pc'[w] \notin {"smtp", "append", "evaluate", "latest", "persist"}
      BY <3>1 DEF StageOK, Reported
    <3>2. CASE LoadStatus(w) \/ CheckSuppression(w) \/ RecordSuppressed(w)
      BY <3>1, <3>2 DEF LoadStatus, CheckSuppression, RecordSuppressed
    <3>3. CASE RestoreState(w)
      BY <3>1, <3>3 DEF RestoreState
    <3>4. CASE BeginAttempt(w)
      BY <3>1, <3>4 DEF BeginAttempt, StageOK, Open, Reported
    <3>5. ASSUME NEW r \in Results, Deliver(w, r) PROVE StageOK(w)'
      BY <3>0, <3>1, <3>5 DEF Deliver, StageOK, Reported
    <3>6. CASE RecordAttempt(w)
      <4>1. Open(base[w]) /\ base[w] \in States /\ ref[w] \in 1..MaxToken
        BY <3>0, <3>6, WorkerTypes, CellTypes DEF StageOK, RecordAttempt, Holding
      <4>2. Recorded(base[w], res[w]).n \in 1..MaxAttempts
        BY <4>1, Outcomes, Values, DeliveryAssumption DEF Recorded
      <4>3. heap'[ref[w]].n \in 1..MaxAttempts
        BY <3>6, <4>1, <4>2, CellTypes DEF RecordAttempt
      <4>4. QED
        BY <3>6, <4>3 DEF RecordAttempt, StageOK
    <3>7. CASE EvaluateOutcome(w)
      BY <3>0, <3>7 DEF EvaluateOutcome, StageOK, Reported
    <3>8. CASE ReadLatest(w)
      BY <3>0, <3>1, <3>8 DEF ReadLatest, StageOK, Reported
    <3>9. CASE PersistOutcome(w)
      BY <3>1, <3>9 DEF PersistOutcome
    <3>10. CASE PersistReplyLost(w)
      BY <3>0, <3>10 DEF PersistReplyLost, StageOK, workerVars
    <3>11. CASE Idle({w})
      BY <3>1, <3>11 DEF Idle
    <3>12. CASE LoadFails(w) \/ HoldIfMemberDisabled(w) \/ SuppressionUnknown(w) \/ DeferForPermit(w)
      BY <3>1, <3>12 DEF LoadFails, HoldIfMemberDisabled, SuppressionUnknown,
                         DeferForPermit, Defer
    <3>13. CASE Panic(w)
      BY <3>1, <3>11, <3>13 DEF Panic
    <3>14. QED
      BY <1>4, <3>2, <3>3, <3>4, <3>5, <3>6, <3>7, <3>8, <3>9, <3>10, <3>11, <3>12, <3>13
         DEF Turn, WorkerStep, WorkerFault, Ack, AckReplyLost, Release, QueueCallFails
  <2>3. QED
    BY <2>1, <2>2 DEF StagesInv
<1>5. ASSUME NEW p \in Procs, Crash(p) PROVE StagesInv'
  BY <1>5 DEF Crash, Idle, StagesInv, StageOK, Reported
<1>6. QED
  BY <1>1, <1>2, <1>3, <1>4, <1>5, NextCases

(* The attempts Load restores for an unfinished message leave room for one  *)
(* more: their numbers are distinct and below the limit.                    *)
LEMMA RestoredOpen ==
    ASSUME IInv, NEW m \in Jobs, NEW s \in States, Restores(s, m), RowsOK(m),
           status[m] \notin Finished
    PROVE  Open(s)
<1> DEFINE R == rows[m]
           T == 1..(MaxAttempts - 1)
           f == [x \in R |-> x[1]]
<1>1. /\ IsFiniteSet(R) /\ MaxAttempts \in Nat /\ MaxAttempts # 0
      /\ \A x, y \in R : x[1] = y[1] => x = y
  BY DeliveryAssumption DEF IInv, DatabaseInv, NumbersAreKeys
<1>2. \A x \in R : x[1] \in T /\ Decide(x[2]) = "retry"
  BY <1>1 DEF RowsOK
<1>3. Cardinality(R) < MaxAttempts
  <2>1. IsFiniteSet(T) /\ Cardinality(T) = MaxAttempts - 1
    <3>1. 1 \in Int /\ MaxAttempts - 1 \in Int
      BY <1>1
    <3>2. /\ IsFiniteSet(T)
          /\ Cardinality(T) = IF 1 > MaxAttempts - 1 THEN 0 ELSE MaxAttempts - 1 - 1 + 1
      BY <3>1, FS_Interval
    <3>3. QED
      BY <1>1, <3>2
  <2>2. f \in [R -> T]
    BY <1>2
  <2>3. ~(Cardinality(T) < Cardinality(R))
    <3>1. SUFFICES ASSUME Cardinality(T) < Cardinality(R) PROVE FALSE
      OBVIOUS
    <3>2. \E x, y \in R : x # y /\ f[x] = f[y]
      <4> HIDE DEF R, T, f
      <4>1. QED
        BY <1>1, <2>1, <2>2, <3>1, FS_PigeonHole
    <3>3. QED
      BY <1>1, <3>2
  <2>4. Cardinality(R) \in Nat
    BY <1>1, FS_CardinalityType
  <2>5. QED
    BY <1>1, <2>1, <2>3, <2>4
<1>4. CASE s.n = 0
  BY <1>4 DEF Open, Evaluate
<1>5. CASE s.n # 0
  <2>1. R # {} /\ s.n < MaxAttempts
    BY <1>3, <1>5, FS_EmptySet DEF Restores
  <2>2. Decide(s.last) = "retry"
    BY <1>2, <2>1 DEF Restores
  <2>3. QED
    BY <1>1, <1>5, <2>1, <2>2, Values DEF Open, Evaluate
<1>6. QED
  BY <1>4, <1>5

\* What a turn does to the row of the message and its attempts.
Suppresses(w) ==
    /\ pc[w] = "record" /\ pc'[w] = "ack"
    /\ UNCHANGED rows
    /\ status' = [status EXCEPT ![job[w]] = "suppressed"]

Stores(w) ==
    /\ pc[w] = "persist" /\ ~PersistRefused(w) /\ StoreOutcome(w)
    /\ UNCHANGED <<memVars, history>> \/ UNCHANGED <<memVars, workerVars, sends, accepts, faults>>
    /\ \/ UNCHANGED workerVars
       \/ /\ UNCHANGED <<job, ref, res, base, verdict>>
          /\ pc' = [pc EXCEPT ![w] = IF verdict[w] = "retryable"
                                     THEN "release" ELSE "ack"]

(* A turn writes the message's status in one of these two ways.             *)
LEMMA RowCases ==
    ASSUME WorkInv, NEW w \in Workers, Turn(w)
    PROVE  UNCHANGED <<status, rows>> \/ Suppresses(w) \/ Stores(w)
<1> USE DEF WorkInv, IInv, WorkerInv, WorkerTypeOK
<1>1. CASE UNCHANGED pgVars
  BY <1>1 DEF pgVars
<1>2. CASE RecordSuppressed(w)
  BY <1>2 DEF RecordSuppressed, Suppresses, Goto
<1>3. CASE PersistOutcome(w)
  BY <1>1, <1>3 DEF PersistOutcome, Stores, Goto, ToRelease
<1>4. CASE PersistReplyLost(w)
  BY <1>4 DEF PersistReplyLost, Stores, Delay
<1>5. QED
  BY <1>1, <1>2, <1>3, <1>4
     DEF Turn, WorkerStep, WorkerFault, LoadStatus, RestoreState, CheckSuppression,
         BeginAttempt, Deliver, RecordAttempt, EvaluateOutcome, ReadLatest,
         Ack, Release, LoadFails, HoldIfMemberDisabled, SuppressionUnknown,
         DeferForPermit, Defer, Panic, QueueCallFails, AckReplyLost

(* What a worker at the persist step is about to store.                     *)
LEMMA AboutToStore ==
    ASSUME WorkInv, NEW w \in Workers, pc[w] = "persist"
    PROVE  LET s == heap[ref[w]] IN
           /\ s \in States /\ s.n \in 1..MaxAttempts /\ s.n # 0
           /\ Number(w) = s.n /\ res[w] = s.last /\ verdict[w] = Evaluate(s)
           /\ Outcome(w) = classifyDeliveryOutcome(s.last, Evaluate(s) = "exhausted")
           /\ job[w] \in Jobs
BY WorkerTypes, CellTypes, DeliveryAssumption
   DEF WorkInv, StagesInv, StageOK, Reported, Number, Outcome, Exhausted, Holding

(* A stored outcome changes only the rows of its message, and one of a      *)
(* finished message changes nothing.                                        *)
LEMMA StoredRows ==
    ASSUME WorkInv, NEW w \in Workers, Stores(w)
    PROVE  /\ \A k \in Jobs \ {job[w]} : status'[k] = status[k] /\ rows'[k] = rows[k]
           /\ status'[job[w]] = Outcome(w)
           /\ rows'[job[w]] = rows[job[w]] \cup {<<Number(w), res[w]>>}
           /\ status[job[w]] \in Finished =>
                 /\ status'[job[w]] = status[job[w]]
                 /\ rows'[job[w]] = rows[job[w]]
<1>1. job[w] \in Jobs
  BY AboutToStore DEF Stores
<1>2. /\ \A k \in Jobs \ {job[w]} : status'[k] = status[k] /\ rows'[k] = rows[k]
      /\ status'[job[w]] = Outcome(w)
      /\ rows'[job[w]] = rows[job[w]] \cup {<<Number(w), res[w]>>}
  BY <1>1 DEF Stores, StoreOutcome, WorkInv, IInv, DatabaseInv, DatabaseTypeOK
<1>3. status[job[w]] \in Finished => status[job[w]] = Outcome(w) /\ Duplicate(w)
  BY DEF Stores, WorkInv, EndsInv, EndsOK, Holding
<1>4. QED
  BY <1>2, <1>3 DEF Duplicate

(* No turn touches the rows of another message.                             *)
LEMMA OtherRows ==
    ASSUME WorkInv, NEW w \in Workers, Turn(w), NEW k \in Jobs, k # job[w]
    PROVE  status'[k] = status[k] /\ rows'[k] = rows[k]
BY RowCases, StoredRows DEF Suppresses, WorkInv, IInv, DatabaseInv, DatabaseTypeOK

(* A terminal status is final, whoever takes a step.                        *)
LEMMA FinalStep ==
    ASSUME LeasesLast, WorkInv, [Next]_vars, NEW k \in Jobs, status[k] \in Finished
    PROVE  status'[k] = status[k]
<1>1. CASE UNCHANGED status
  BY <1>1
<1>2. ASSUME NEW m \in Jobs, Accept(m) PROVE status'[k] = status[k]
  BY <1>2 DEF Accept, Finished, WorkInv, IInv, DatabaseInv, DatabaseTypeOK
<1>3. ASSUME NEW w \in Workers, Turn(w) PROVE status'[k] = status[k]
  <2>1. CASE k # job[w]
    BY <1>3, <2>1, OtherRows
  <2>2. CASE k = job[w]
    <3>1. ~Suppresses(w)
      BY <2>2 DEF Suppresses, WorkInv, EndsInv, EndsOK, Holding
    <3>2. QED
      BY <1>3, <2>2, <3>1, RowCases, StoredRows
  <2>3. QED
    BY <2>1, <2>2
<1>4. QED
  BY <1>1, <1>2, <1>3, NextCases
     DEF Quiet, Claim, Crash, pgVars, vars

(* The rows of unfinished messages stay below the limit.                    *)
LEMMA RowsStep ==
    ASSUME LeasesLast, WorkInv, Next, NEW k \in Jobs
    PROVE  RowsOK(k)'
<1>0. RowsOK(k)
  BY DEF WorkInv, EndsInv
<1>1. CASE UNCHANGED <<status, rows>>
  BY <1>0, <1>1 DEF RowsOK
<1>2. ASSUME NEW m \in Jobs, Accept(m) PROVE RowsOK(k)'
  BY <1>0, <1>2 DEF Accept, RowsOK, Finished, WorkInv, IInv, DatabaseInv, DatabaseTypeOK
<1>3. ASSUME NEW w \in Workers, Turn(w) PROVE RowsOK(k)'
  <2>1. CASE k # job[w]
    BY <1>0, <1>3, <2>1, OtherRows DEF RowsOK
  <2>2. CASE Suppresses(w) /\ k = job[w]
    BY <1>0, <2>2 DEF Suppresses, RowsOK, Finished, WorkInv, IInv, DatabaseInv, DatabaseTypeOK
  <2>3. CASE Stores(w) /\ k = job[w]
    <3> DEFINE new == <<Number(w), res[w]>>
    <3>1. pc[w] = "persist"
      BY <2>3 DEF Stores
    <3>2. /\ new[1] \in 1..MaxAttempts
          /\ Outcome(w) \notin Finished =>
                Decide(new[2]) = "retry" /\ new[1] < MaxAttempts
      BY <3>1, AboutToStore, Outcomes
    <3>3. CASE status[k] \in Finished
      BY <1>0, <2>3, <3>3, StoredRows DEF RowsOK
    <3>4. CASE status[k] \notin Finished
      BY <1>0, <2>3, <3>2, <3>4, StoredRows DEF RowsOK
    <3>5. QED
      BY <3>3, <3>4
  <2>4. QED
    BY <1>1, <1>3, <2>1, <2>2, <2>3, RowCases
<1>4. QED
  BY <1>1, <1>2, <1>3, NextCases DEF Quiet, Claim, Crash, pgVars

(* A worker that is not on its turn ends as it would have.                  *)
LEMMA OtherEnds ==
    ASSUME WorkInv, NEW w \in Workers, Turn(w), NEW v \in Workers, v # w
    PROVE  EndsOK(v)'
<1>1. Still(v) /\ EndsOK(v)
  BY OthersStill DEF WorkInv, EndsInv
<1>2. CASE pc[v] = "idle"
  BY <1>1, <1>2 DEF EndsOK, Still, Holding
<1>3. CASE pc[v] # "idle"
  <2>1. job[v] \in Jobs /\ job[v] # job[w]
    BY <1>3, OwnTurn, CellTypes DEF WorkInv, ClaimsInv
  <2>2. status'[job[v]] = status[job[v]] /\ rows'[job[v]] = rows[job[v]]
    BY <2>1, OtherRows
  <2>3. QED
    BY <1>1, <2>2 DEF EndsOK, Still, Outcome, Exhausted, Duplicate, Number
<1>4. QED
  BY <1>2, <1>3

(* Nobody else is at work on a worker's message.                            *)
LEMMA Alone ==
    ASSUME ClaimsInv, NEW w \in Workers, NEW v \in Workers, pc[w] # "idle",
           pc[v] # "idle", job[v] = job[w]
    PROVE  v = w
BY DEF ClaimsInv

(* Coordinator.Attempt refuses only a state whose message is finished.      *)
LEMMA RefusedIsFinished ==
    ASSUME WorkInv, NEW w \in Workers, pc[w] = "permit", ~Open(heap[ref[w]])
    PROVE  status[job[w]] \in Finished
<1>1. /\ ref[w] = cache[ProcOf[w]][job[w]] /\ ref[w] # 0
      /\ ProcOf[w] \in Procs /\ job[w] \in Jobs
  BY CellTypes DEF WorkInv, CellsInv, Holding
<1>2. ~ \E v \in Workers : job[v] = job[w] /\ pc[v] \in Reported
  BY Alone DEF WorkInv, Reported
<1>3. CachedOK(ProcOf[w], job[w])
  BY <1>1 DEF WorkInv, EndsInv
<1>4. QED
  BY <1>1, <1>2, <1>3 DEF CachedOK

(* On its turn a worker decides to Ack only what is finished.               *)
LEMMA OwnEnds ==
    ASSUME LeasesLast, WorkInv, NEW w \in Workers, Turn(w)
    PROVE  EndsOK(w)'
<1> USE DEF WorkInv, IInv, WorkerInv, WorkerTypeOK, Goto, ToRelease, pgVars
<1>0. /\ EndsOK(w) /\ pc[w] # "idle" /\ job[w] \in Jobs
  BY OwnTurn, CellTypes DEF EndsInv
<1>1. CASE pc'[w] \in {"idle", "load", "release"}
  BY <1>1 DEF EndsOK, Holding
<1>2. CASE LoadStatus(w)
  BY <1>0, <1>2 DEF LoadStatus, EndsOK, Terminal, Finished, Holding
<1>3. CASE RestoreState(w)
  BY <1>0, <1>1, <1>3 DEF RestoreState, EndsOK, Holding
<1>4. CASE CheckSuppression(w)
  BY <1>0, <1>4 DEF CheckSuppression, EndsOK, Holding
<1>5. CASE RecordSuppressed(w)
  <2>1. status[job[w]] \notin Finished /\ job'[w] = job[w]
    BY <1>0, <1>5 DEF RecordSuppressed, EndsOK, Holding
  <2>2. \/ pc'[w] = "permit" /\ UNCHANGED status
        \/ pc'[w] = "ack" /\ status' = [status EXCEPT ![job[w]] = "suppressed"]
    BY <1>5, <2>1 DEF RecordSuppressed, Terminal, Finished
  <2>3. status \in [Jobs -> Statuses]
    BY DEF DatabaseInv, DatabaseTypeOK
  <2>4. QED
    BY <1>0, <2>1, <2>2, <2>3 DEF EndsOK, Finished, Holding
<1>6. CASE BeginAttempt(w)
  BY <1>0, <1>6, RefusedIsFinished DEF BeginAttempt, EndsOK, Holding, Open
<1>7. ASSUME NEW r \in Results, Deliver(w, r) PROVE EndsOK(w)'
  BY <1>0, <1>1, <1>7 DEF Deliver, EndsOK, Holding
<1>8. CASE RecordAttempt(w) \/ EvaluateOutcome(w) \/ ReadLatest(w)
  BY <1>0, <1>1, <1>8 DEF RecordAttempt, EvaluateOutcome, ReadLatest, EndsOK, Holding
<1>9. CASE PersistOutcome(w)
  <2>1. ~PersistRefused(w)
    BY <1>0, <1>9 DEF PersistOutcome, PersistRefused, Terminal, Finished, EndsOK, Holding
  <2>2. Stores(w)
    BY <1>9, <2>1 DEF PersistOutcome, Stores
  <2>3. /\ pc'[w] = IF verdict[w] = "retryable" THEN "release" ELSE "ack"
        /\ job'[w] = job[w] /\ pc[w] = "persist"
    BY <1>9, <2>1 DEF PersistOutcome
  <2>4. verdict[w] # "retryable" => status'[job[w]] \in Finished
    BY <2>2, <2>3, AboutToStore, Outcomes, StoredRows
  <2>5. QED
    BY <2>3, <2>4 DEF EndsOK, Holding
<1>10. CASE PersistReplyLost(w)
  <2>1. Stores(w)
    BY <1>10 DEF PersistReplyLost, Stores, Delay
  <2>2. /\ pc'[w] = "persist" /\ job'[w] = job[w] /\ res'[w] = res[w]
        /\ base'[w] = base[w] /\ verdict'[w] = verdict[w]
    BY <1>10 DEF PersistReplyLost, workerVars
  <2>3. /\ status'[job[w]] = Outcome(w)
        /\ <<Number(w), res[w]>> \in rows'[job[w]]
    BY <2>1, StoredRows
  <2>4. QED
    BY <2>2, <2>3 DEF EndsOK, Outcome, Exhausted, Duplicate, Number
<1>11. CASE Idle({w})
  BY <1>1, <1>11 DEF Idle
<1>12. CASE LoadFails(w) \/ HoldIfMemberDisabled(w) \/ SuppressionUnknown(w) \/ DeferForPermit(w)
  BY <1>1, <1>12 DEF LoadFails, HoldIfMemberDisabled, SuppressionUnknown,
                     DeferForPermit, Defer
<1>13. CASE Panic(w)
  BY <1>1, <1>11, <1>13 DEF Panic
<1>14. QED
  BY <1>2, <1>3, <1>4, <1>5, <1>6, <1>7, <1>8, <1>9, <1>10, <1>11, <1>12, <1>13
     DEF Turn, WorkerStep, WorkerFault, Ack, AckReplyLost, Release, QueueCallFails

(* A worker with a reported attempt keeps it until it is stored.            *)
LEMMA ReportedStays ==
    ASSUME LeasesLast, WorkInv, NEW w \in Workers, Turn(w), pc[w] \in Reported,
           ~Stores(w)
    PROVE  /\ pc'[w] \in Reported /\ job'[w] = job[w] /\ ref'[w] = ref[w]
           /\ UNCHANGED memVars
<1> USE DEF WorkInv, IInv, WorkerInv, WorkerTypeOK, Goto, ToRelease, Reported
<1>0. StageOK(w) /\ EndsOK(w)
  BY DEF StagesInv, EndsInv
<1>1. CASE ReadLatest(w)
  BY <1>0, <1>1 DEF ReadLatest, StageOK
<1>2. CASE EvaluateOutcome(w)
  BY <1>2 DEF EvaluateOutcome
<1>3. CASE PersistOutcome(w)
  BY <1>0, <1>3 DEF PersistOutcome, Stores, PersistRefused, Terminal, Finished,
                    EndsOK, Holding
<1>4. CASE PersistReplyLost(w)
  BY <1>4 DEF PersistReplyLost, Stores, Delay, workerVars
<1>5. QED
  BY <1>1, <1>2, <1>3, <1>4
     DEF Turn, WorkerStep, WorkerFault, LoadStatus, RestoreState,
         CheckSuppression, RecordSuppressed, BeginAttempt, Deliver,
         RecordAttempt, Ack, Release, LoadFails, HoldIfMemberDisabled,
         SuppressionUnknown, DeferForPermit, Defer, Panic, QueueCallFails,
         AckReplyLost, LeasesLast

(* On its turn a worker leaves a finished state behind only when its        *)
(* message is finished.                                                     *)
LEMMA OwnCached ==
    ASSUME LeasesLast, WorkInv, NEW w \in Workers, Turn(w), Next,
           NEW p \in Procs, NEW m \in Jobs, p = ProcOf[w], m = job[w]
    PROVE  CachedOK(p, m)'
<1> DEFINE c == cache[p][m]
<1>0. /\ p \in Procs /\ m \in Jobs /\ pc[w] # "idle"
      /\ CachedOK(p, m) /\ EndsOK(w) /\ StageOK(w) /\ RowsOK(m)
  BY OwnTurn, CellTypes DEF WorkInv, EndsInv, StagesInv
<1>1. CASE pc'[w] \in Reported /\ pc'[w] # "idle"
  BY <1>0, <1>1, OwnTurn DEF WorkInv, CachedOK
<1>2. CASE Stores(w) /\ pc'[w] \notin Reported
  <2>1. ref[w] = c /\ UNCHANGED memVars /\ pc[w] = "persist"
    BY <1>2 DEF Stores, WorkInv, CellsInv, Holding
  <2>2. status'[m] \in Finished \/ Open(heap[c])
    BY <1>2, <2>1, AboutToStore, Outcomes, StoredRows
  <2>3. QED
    BY <2>1, <2>2 DEF CachedOK, memVars
<1>3. ASSUME NEW s \in States, Restoring(w, s) PROVE CachedOK(p, m)'
  <2>1. Open(s)
    BY <1>0, <1>3, RestoredOpen DEF WorkInv, Restoring, EndsOK
  <2>2. cache'[p][m] = tok[w] /\ heap'[tok[w]] = s
    BY <1>0, <1>3, CellTypes DEF WorkInv, Restoring
  <2>3. QED
    BY <2>1, <2>2 DEF CachedOK
<1>4. CASE Forgets(w)
  BY <1>0, <1>4, CellTypes DEF WorkInv, Forgets, CachedOK
<1>5. CASE UNCHANGED memVars /\ pc[w] \notin Reported
  <2>1. ~ \E v \in Workers : job[v] = m /\ pc[v] \in Reported
    BY <1>0, <1>5, Alone DEF WorkInv, Reported
  <2>2. status[m] \in Finished => status'[m] \in Finished
    BY <1>0, FinalStep
  <2>3. QED
    BY <1>0, <1>5, <2>1, <2>2 DEF CachedOK, memVars
<1>6. CASE pc[w] \in Reported /\ ~Stores(w)
  BY <1>1, <1>6, ReportedStays DEF Reported
<1>7. CASE RecordAttempt(w)
  BY <1>1, <1>7 DEF RecordAttempt, Goto, Reported, WorkInv, IInv, WorkerInv, WorkerTypeOK
<1>8. QED
  BY <1>1, <1>2, <1>3, <1>4, <1>5, <1>6, <1>7, CellCases DEF WorkInv, Looks, Finds, Reported

(* Every step keeps what workers rely on of finished messages.              *)
LEMMA EndsInvStep ==
    ASSUME LeasesLast, WorkInv, Next
    PROVE  EndsInv'
<1>0. \A m \in Jobs : status[m] \in Finished => status'[m] = status[m]
  BY FinalStep
<1>1. CASE UNCHANGED <<workerVars, memVars, status, rows>>
  BY <1>1 DEF WorkInv, EndsInv, EndsOK, CachedOK, RowsOK, workerVars, memVars,
              Outcome, Exhausted, Duplicate, Number
<1>2. ASSUME NEW m \in Jobs, Accept(m) PROVE EndsInv'
  <2>1. /\ UNCHANGED <<workerVars, memVars, rows>>
        /\ \A k \in Jobs : status'[k] \in Finished <=> status[k] \in Finished
    BY <1>2 DEF Accept, WorkInv, IInv, DatabaseInv, DatabaseTypeOK, Finished
  <2>2. ASSUME NEW w \in Workers PROVE EndsOK(w)'
    <3>1. pc[w] # "idle" => job[w] \in Jobs
      BY CellTypes DEF WorkInv
    <3>2. QED
      BY <1>0, <2>1, <3>1 DEF WorkInv, EndsInv, EndsOK, workerVars, Holding,
                              Outcome, Exhausted, Duplicate, Number
  <2>3. ASSUME NEW p \in Procs, NEW k \in Jobs PROVE CachedOK(p, k)'
    BY <2>1 DEF WorkInv, EndsInv, CachedOK, workerVars, memVars
  <2>4. QED
    BY <2>2, <2>3, RowsStep DEF EndsInv
<1>3. ASSUME NEW w \in Workers, NEW E \in SUBSET Owned, NEW m \in Jobs, Claim(w, E, m)
      PROVE  EndsInv'
  <2>1. /\ UNCHANGED <<memVars, status, rows, res, base, verdict>>
        /\ pc'[w] = "load" /\ pc[w] = "idle"
        /\ \A v \in Workers \ {w} : pc'[v] = pc[v] /\ job'[v] = job[v]
    BY <1>3 DEF Claim, Goto, pgVars, WorkInv, IInv, WorkerInv, WorkerTypeOK
  <2>2. ASSUME NEW v \in Workers PROVE EndsOK(v)'
    BY <2>1 DEF WorkInv, EndsInv, EndsOK, Holding, Outcome, Exhausted, Duplicate, Number
  <2>3. ASSUME NEW p \in Procs, NEW k \in Jobs PROVE CachedOK(p, k)'
    <3>1. ASSUME NEW v \in Workers, ProcOf[v] = p, job[v] = k, pc[v] \in Reported
          PROVE  job'[v] = k /\ pc'[v] \in Reported
      BY <2>1, <3>1 DEF Reported
    <3>2. QED
      BY <2>1, <3>1 DEF WorkInv, EndsInv, CachedOK, memVars
  <2>4. QED
    BY <2>2, <2>3, RowsStep DEF EndsInv
<1>4. ASSUME NEW w \in Workers, Turn(w) PROVE EndsInv'
  <2>1. \A v \in Workers : EndsOK(v)'
    BY <1>4, OwnEnds, OtherEnds
  <2>2. ASSUME NEW p \in Procs, NEW k \in Jobs PROVE CachedOK(p, k)'
    <3>1. CASE p = ProcOf[w] /\ k = job[w]
      BY <1>4, <3>1, OwnCached
    <3>2. CASE p # ProcOf[w] \/ k # job[w]
      <4>1. /\ cache'[p][k] = cache[p][k]
            /\ cache[p][k] # 0 => heap'[cache[p][k]] = heap[cache[p][k]]
        BY <1>4, <3>2, OtherCells DEF WorkInv
      <4>2. ASSUME NEW v \in Workers, ProcOf[v] = p, job[v] = k, pc[v] \in Reported
            PROVE  job'[v] = k /\ pc'[v] \in Reported
        BY <1>4, <3>2, <4>2, OthersStill DEF WorkInv, Still
      <4>3. QED
        BY <1>0, <4>1, <4>2 DEF WorkInv, EndsInv, CachedOK
    <3>3. QED
      BY <3>1, <3>2
  <2>3. QED
    BY <2>1, <2>2, RowsStep DEF EndsInv
<1>5. ASSUME NEW p \in Procs, Crash(p) PROVE EndsInv'
  <2>1. /\ UNCHANGED <<status, rows, heap>>
        /\ \A q \in Procs, m \in Jobs : cache'[q][m] = IF q = p THEN 0 ELSE cache[q][m]
        /\ \A v \in Workers : IF ProcOf[v] = p THEN pc'[v] = "idle" ELSE Still(v)
    BY <1>5, CellTypes DEF Crash, Idle, pgVars, Still, WorkInv
  <2>2. ASSUME NEW v \in Workers PROVE EndsOK(v)'
    <3>1. CASE ProcOf[v] = p
      BY <2>1, <3>1 DEF EndsOK, Holding
    <3>2. CASE ProcOf[v] # p
      BY <2>1, <3>2 DEF WorkInv, EndsInv, EndsOK, Still, Outcome, Exhausted, Duplicate, Number
    <3>3. QED
      BY <3>1, <3>2
  <2>3. ASSUME NEW q \in Procs, NEW k \in Jobs PROVE CachedOK(q, k)'
    <3>1. CASE q = p
      BY <2>1, <3>1 DEF CachedOK
    <3>2. CASE q # p
      <4>1. ASSUME NEW v \in Workers, ProcOf[v] = q
            PROVE  job'[v] = job[v] /\ pc'[v] = pc[v]
        BY <2>1, <3>2, <4>1 DEF Still
      <4>2. QED
        BY <2>1, <3>2, <4>1 DEF WorkInv, EndsInv, CachedOK
    <3>3. QED
      BY <3>1, <3>2
  <2>4. QED
    BY <2>2, <2>3, RowsStep DEF EndsInv
<1>6. QED
  BY <1>1, <1>2, <1>3, <1>4, <1>5, NextCases DEF Quiet

(* Every behaviour keeps the whole invariant, if leases outlast the work.   *)
LEMMA WorkInvHolds ==
    ASSUME LeasesLast
    PROVE  Spec => []WorkInv
<1>1. Init => WorkInv
  <2>1. ASSUME Init PROVE ClaimsInv /\ CellsInv
    <3>1. issued = 0 /\ \A p \in Procs, m \in Jobs : cache[p][m] = 0
      BY <2>1 DEF Init, QueueInit
    <3>2. \A w \in Workers : pc[w] = "idle"
      BY <2>1 DEF Init
    <3>3. QED
      BY <3>1, <3>2 DEF ClaimsInv, CellsInv, Holding
  <2>2. ASSUME Init PROVE StagesInv /\ EndsInv
    BY <2>2 DEF Init, StagesInv, StageOK, Reported, EndsInv, EndsOK,
                CachedOK, RowsOK, Holding
  <2>3. QED
    BY <2>1, <2>2, InitEstablishes DEF WorkInv
<1>2. ASSUME WorkInv, IInv', [Next]_vars PROVE WorkInv'
  <2>1. CASE Next
    BY <1>2, <2>1, ClaimsInvStep, CellsInvStep, StagesInvStep, EndsInvStep DEF WorkInv
  <2>2. CASE UNCHANGED vars
    <3>1. UNCHANGED <<queueVars, pgVars, memVars, workerVars>>
      BY <2>2 DEF vars
    <3>2. ClaimsInv' /\ CellsInv'
      BY <1>2, <3>1 DEF WorkInv, ClaimsInv, CellsInv, queueVars, memVars, workerVars
    <3>3. StagesInv'
      BY <1>2, <3>1 DEF WorkInv, StagesInv, StageOK, memVars, workerVars
    <3>4. EndsInv'
      BY <1>2, <3>1 DEF WorkInv, EndsInv, EndsOK, CachedOK, RowsOK, pgVars,
                        memVars, workerVars, Outcome, Exhausted, Duplicate, Number
    <3>5. QED
      BY <1>2, <3>2, <3>3, <3>4 DEF WorkInv
  <2>3. QED
    BY <1>2, <2>1, <2>2
<1>3. WorkInv /\ IInv' /\ [Next]_vars => WorkInv'
  BY <1>2
<1>4. QED
  BY <1>1, <1>3, InvariantHolds, PTL DEF Spec

(* Only an Ack removes a job, and it removes that of a finished message.    *)
LEMMA AckStep ==
    ASSUME WorkInv, [Next]_vars, NEW m \in Jobs, m \in active, m \notin active'
    PROVE  status[m] \in Finished
<1>1. ASSUME NEW w \in Workers, Turn(w) PROVE status[m] \in Finished
  <2>1. CASE Ack(w) \/ AckReplyLost(w)
    <3>1. pc[w] = "ack" /\ m = job[w]
      BY <2>1 DEF Ack, AckReplyLost, AckJob, queueVars
    <3>2. QED
      BY <3>1 DEF WorkInv, EndsInv, EndsOK
  <2>2. CASE ~Ack(w) /\ ~AckReplyLost(w)
    BY <1>1, <2>2
       DEF Turn, WorkerStep, WorkerFault, LoadStatus, RestoreState,
           CheckSuppression, RecordSuppressed, BeginAttempt, Deliver,
           RecordAttempt, EvaluateOutcome, ReadLatest, PersistOutcome, Release,
           ReleaseJob, LoadFails, HoldIfMemberDisabled, SuppressionUnknown,
           DeferForPermit, Defer, Panic, PersistReplyLost, QueueCallFails, queueVars
  <2>3. QED
    BY <2>1, <2>2
<1>2. QED
  BY <1>1, NextCases
     DEF Quiet, Accept, Claim, ClaimJob, Crash, queueVars, vars

\* If leases outlast the work, the job of a message leaves the queue only
\* when its outcome is stored, and a stored outcome is never overwritten, for
\* any number of processes, workers, crashes and lost replies.
THEOREM OutcomesStayDurable == LeasesLast => (Spec => OutcomesAreDurable)
<1> DEFINE Acked == \A m \in Jobs : m \in active /\ m \notin active' => status[m] \in Finished
           Final == \A m \in Jobs : status[m] \in Finished => status'[m] = status[m]
<1> SUFFICES ASSUME LeasesLast PROVE Spec => OutcomesAreDurable
  OBVIOUS
<1>1. WorkInv /\ [Next]_vars => Acked /\ Final
  BY AckStep, FinalStep
<1>2. WorkInv /\ [Next]_vars => [Acked]_vars /\ [Final]_vars
  BY <1>1
<1>3. QED
  BY <1>2, WorkInvHolds, PTL
     DEF Spec, OutcomesAreDurable, AckOnlyWhenDurable, FinishedIsFinal

-----------------------------------------------------------------------------
(* No accepted message is forgotten.                                       *)

\* A dispatcher that enqueued a message may still have to mark its row; by
\* then a worker may have finished the message and Ack'd the job.
DispatchOK ==
    \A p \in Procs : disp[p].at = "enqueued" =>
        disp[p].msg \in active \/ status[disp[p].msg] \in Finished

(* Every step keeps a job, an outbox row or a terminal status.              *)
LEMMA StrandedStep ==
    ASSUME LeasesLast, WorkInv, DispatchOK, NothingStranded, Next
    PROVE  DispatchOK' /\ NothingStranded'
<1> USE DEF WorkInv, IInv
<1>1. \A m \in Jobs : /\ status[m] \in Finished => status'[m] = status[m]
                      /\ m \in active => m \in active' \/ status'[m] \in Finished
  BY FinalStep, AckStep
<1>2. \A p \in Procs : disp[p].at # "idle" => disp[p].msg \in Jobs
  BY DEF ProcessTypeOK
<1>3. ASSUME UNCHANGED disp PROVE DispatchOK'
  BY <1>1, <1>2, <1>3 DEF DispatchOK
<1>4. ASSUME UNCHANGED outbox,
             \A m \in Jobs : status'[m] # status[m] => m \in active' \/ status'[m] \in Finished
      PROVE  NothingStranded'
  BY <1>1, <1>4 DEF NothingStranded, Finished
<1>5. ASSUME NEW p \in Procs, DispatchStep(p) PROVE DispatchOK' /\ NothingStranded'
  <2>1. CASE MarkOutboxDispatched(p)
    <3>1. DispatchOK'
      BY <1>1, <1>2, <2>1 DEF MarkOutboxDispatched, DispatchOK, ProcessTypeOK
    <3>2. /\ UNCHANGED <<status, active>> /\ disp[p].msg \in Jobs
          /\ disp[p].msg \in active \/ status[disp[p].msg] \in Finished
          /\ outbox' = [outbox EXCEPT ![disp[p].msg] = "dispatched"]
      BY <1>2, <2>1 DEF MarkOutboxDispatched, DispatchOK, queueVars
    <3>3. QED
      BY <3>1, <3>2 DEF NothingStranded, Finished, DatabaseInv, DatabaseTypeOK
  <2>2. CASE DispatchEnqueue(p)
    <3>1. /\ UNCHANGED <<status, outbox>> /\ disp[p].msg \in active'
          /\ disp' = [disp EXCEPT ![p] = [at |-> "enqueued", msg |-> disp[p].msg]]
      BY <2>2 DEF DispatchEnqueue, EnqueueJob, queueVars, pgVars
    <3>2. DispatchOK'
      <4>1. ASSUME NEW q \in Procs, disp'[q].at = "enqueued"
            PROVE  disp'[q].msg \in active' \/ status'[disp'[q].msg] \in Finished
        <5>1. CASE q = p
          BY <3>1, <5>1 DEF ProcessTypeOK
        <5>2. CASE q # p
          <6>1. disp'[q] = disp[q]
            BY <3>1, <5>2 DEF ProcessTypeOK
          <6>2. QED
            BY <1>1, <1>2, <4>1, <6>1 DEF DispatchOK
        <5>3. QED
          BY <5>1, <5>2
      <4>2. QED
        BY <4>1 DEF DispatchOK
    <3>3. QED
      BY <1>4, <3>1, <3>2
  <2>3. ASSUME NEW m \in Jobs, ListPendingOutbox(p, m) PROVE DispatchOK' /\ NothingStranded'
    <3>1. DispatchOK'
      BY <1>1, <1>2, <2>3 DEF ListPendingOutbox, DispatchOK, ProcessTypeOK
    <3>2. QED
      BY <1>4, <2>3, <3>1 DEF ListPendingOutbox, pgVars
  <2>4. QED
    BY <1>5, <2>1, <2>2, <2>3 DEF DispatchStep
<1>6. ASSUME NEW p \in Procs, DispatchFails(p) \/ Crash(p) PROVE DispatchOK' /\ NothingStranded'
  <2>1. /\ disp' = [disp EXCEPT ![p] = [at |-> "idle"]]
        /\ UNCHANGED <<status, outbox>>
    BY <1>6 DEF DispatchFails, Crash, pgVars
  <2>2. DispatchOK'
    <3>1. \A q \in Procs : disp'[q].at = "enqueued" => disp'[q] = disp[q]
      BY <2>1 DEF ProcessTypeOK
    <3>2. QED
      BY <1>1, <1>2, <3>1 DEF DispatchOK
  <2>3. QED
    BY <1>4, <2>1, <2>2
<1>7. ASSUME NEW m \in Jobs, Accept(m) PROVE DispatchOK' /\ NothingStranded'
  <2>1. /\ UNCHANGED <<disp, active>>
        /\ outbox'[m] = "pending"
        /\ \A k \in Jobs \ {m} : outbox'[k] = outbox[k] /\ status'[k] = status[k]
    BY <1>7 DEF Accept, queueVars, DatabaseInv, DatabaseTypeOK
  <2>2. QED
    BY <1>3, <2>1 DEF NothingStranded
<1>8. ASSUME NEW w \in Workers, Turn(w) PROVE DispatchOK' /\ NothingStranded'
  <2>1. UNCHANGED <<disp, outbox>>
    BY <1>8 DEF Turn, WorkerStep, WorkerFault, LoadStatus, RestoreState,
           CheckSuppression, RecordSuppressed, BeginAttempt, Deliver,
           RecordAttempt, EvaluateOutcome, ReadLatest, PersistOutcome,
           StoreOutcome, Ack, AckReplyLost, Release, LoadFails,
           HoldIfMemberDisabled, SuppressionUnknown, DeferForPermit, Defer,
           Panic, PersistReplyLost, QueueCallFails, pgVars
  <2>2. \A m \in Jobs : status'[m] # status[m] => m = job[w]
    BY <1>8, OtherRows
  <2>3. job[w] \in active
    BY <1>8, OwnTurn DEF ClaimsInv
  <2>4. QED
    BY <1>1, <1>3, <1>4, <2>1, <2>2, <2>3
<1>9. ASSUME NEW w \in Workers, NEW E \in SUBSET Owned, NEW m \in Jobs, Claim(w, E, m)
      PROVE  DispatchOK' /\ NothingStranded'
  BY <1>3, <1>4, <1>9 DEF Claim, pgVars
<1>10. ASSUME NEW m \in Jobs, RetryComesDue(m) \/ \E b \in {"none", "some", "all"} : SetSuppression(m, b)
       PROVE  DispatchOK' /\ NothingStranded'
  BY <1>3, <1>4, <1>10 DEF RetryComesDue, SetSuppression
<1>11. QED
  BY <1>5, <1>6, <1>7, <1>8, <1>9, <1>10 DEF Next, FaultStep, ClaimStep, Turn, WorkerFault

\* If leases outlast the work, every accepted message that is not finished
\* has a pending outbox row or a job in the queue, whatever crashes between
\* the Enqueue and the mark, the stored outcome and the Ack.
THEOREM NothingIsStranded == LeasesLast => (Spec => []NothingStranded)
<1> DEFINE Inv == DispatchOK /\ NothingStranded
<1> SUFFICES ASSUME LeasesLast PROVE Spec => []NothingStranded
  OBVIOUS
<1>1. Init => Inv
  BY DEF Init, DispatchOK, NothingStranded
<1>2. ASSUME WorkInv, Inv, [Next]_vars PROVE Inv'
  <2>1. CASE UNCHANGED vars
    BY <1>2, <2>1 DEF vars, queueVars, pgVars, DispatchOK, NothingStranded
  <2>2. QED
    BY <1>2, <2>1, StrandedStep
<1>3. WorkInv /\ Inv /\ [Next]_vars => Inv'
  BY <1>2
<1>4. QED
  BY <1>1, <1>3, WorkInvHolds, PTL DEF Spec

-----------------------------------------------------------------------------
(* Accepted twice only through a fault.                                    *)

\* The acceptance of m is stored, or in the hands of the worker that will
\* store it.
Settled(m) ==
    \/ status[m] \in Finished
    \/ \E w \in Workers :
          /\ job[w] = m
          /\ \/ pc[w] = "append" /\ res[w] = "accepted"
             \/ pc[w] \in Reported /\ heap[ref[w]].last = "accepted"

\* Each fault pays for one acceptance that nobody remembers.
AcceptsInv ==
    \A m \in Jobs : /\ accepts[m] <= faults + 1
                    /\ Settled(m) \/ accepts[m] <= faults

(* A turn that is neither a delivery nor a panic remembers acceptances.     *)
LEMMA SettledStays ==
    ASSUME LeasesLast, WorkInv, Next, NEW w \in Workers, Turn(w), NEW m \in Jobs,
           Settled(m), m # job[w] \/ (~Panic(w) /\ \A r \in Results : ~Deliver(w, r))
    PROVE  Settled(m)'
<1> USE DEF WorkInv
<1>1. CASE status[m] \in Finished
  BY <1>1, FinalStep DEF Settled
<1>2. ASSUME NEW v \in Workers, v # w, job[v] = m,
             \/ pc[v] = "append" /\ res[v] = "accepted"
             \/ pc[v] \in Reported /\ heap[ref[v]].last = "accepted"
      PROVE  Settled(m)'
  BY <1>2, OthersStill, OtherStates DEF Settled, Still, Reported, Holding
<1>3. CASE job[w] = m /\ pc[w] = "append" /\ res[w] = "accepted"
  <2>1. RecordAttempt(w)
    BY <1>3 DEF Turn, WorkerStep, WorkerFault, LoadStatus, RestoreState,
       CheckSuppression, RecordSuppressed, BeginAttempt, Deliver,
       EvaluateOutcome, ReadLatest, PersistOutcome, Ack, AckReplyLost, Release,
       LoadFails, HoldIfMemberDisabled, SuppressionUnknown, DeferForPermit,
       Defer, PersistReplyLost, QueueCallFails
  <2>2. ref[w] \in 1..MaxToken /\ heap \in [1..MaxToken -> States]
    BY <1>3, CellTypes DEF Holding
  <2>3. /\ pc'[w] \in Reported /\ job'[w] = m
        /\ heap'[ref'[w]].last = "accepted"
    BY <1>3, <2>1, <2>2 DEF RecordAttempt, Recorded, Reported, Goto, IInv,
                            WorkerInv, WorkerTypeOK
  <2>4. QED
    BY <2>3 DEF Settled
<1>4. CASE job[w] = m /\ pc[w] \in Reported /\ heap[ref[w]].last = "accepted"
  <2>1. CASE Stores(w)
    BY <1>4, <2>1, AboutToStore, Outcomes, StoredRows DEF Settled, Stores, Finished
  <2>2. CASE ~Stores(w)
    BY <1>4, <2>2, ReportedStays DEF Settled, memVars
  <2>3. QED
    BY <2>1, <2>2
<1>5. QED
  BY <1>1, <1>2, <1>3, <1>4 DEF Settled

(* A delivery starts from a message whose acceptance nobody remembers.      *)
LEMMA UnsettledAtSmtp ==
    ASSUME WorkInv, NEW w \in Workers, pc[w] = "smtp"
    PROVE  ~Settled(job[w])
<1>1. status[job[w]] \notin Finished
  BY DEF WorkInv, EndsInv, EndsOK, Holding
<1>2. QED
  BY <1>1, Alone DEF WorkInv, Settled, Reported

(* Every step keeps the account of acceptances.                             *)
LEMMA AcceptsStep ==
    ASSUME LeasesLast, WorkInv, AcceptsInv, Next
    PROVE  AcceptsInv'
<1> USE DEF WorkInv
<1>0. faults \in Nat /\ accepts \in [Jobs -> Nat]
  BY DEF IInv, HistoryTypeOK
<1>1. CASE Quiet
  BY <1>1 DEF Quiet, AcceptsInv, Settled, workerVars, memVars
<1>2. ASSUME NEW m \in Jobs, Accept(m) PROVE AcceptsInv'
  <2>1. \A k \in Jobs : Settled(k) => Settled(k)'
    BY <1>2, FinalStep DEF Accept, Settled, workerVars, memVars
  <2>2. QED
    BY <1>2, <2>1 DEF Accept, AcceptsInv, history
<1>3. ASSUME NEW w \in Workers, NEW E \in SUBSET Owned, NEW m \in Jobs, Claim(w, E, m)
      PROVE  AcceptsInv'
  <2>1. /\ UNCHANGED <<memVars, status, res, ref>> /\ pc[w] = "idle"
        /\ \A v \in Workers \ {w} : pc'[v] = pc[v] /\ job'[v] = job[v]
    BY <1>3 DEF Claim, Goto, pgVars, IInv, WorkerInv, WorkerTypeOK
  <2>2. \A k \in Jobs : Settled(k) => Settled(k)'
    BY <2>1 DEF Settled, Reported, memVars
  <2>3. UNCHANGED <<faults, accepts>>
    BY <1>3 DEF Claim, LeasesLast
  <2>4. QED
    BY <2>2, <2>3 DEF AcceptsInv
<1>4. ASSUME NEW w \in Workers, Turn(w) PROVE AcceptsInv'
  <2>1. CASE Panic(w)
    <3>1. faults' = faults + 1 /\ UNCHANGED accepts
      BY <2>1 DEF Panic, Fault
    <3>2. QED
      BY <1>0, <3>1 DEF AcceptsInv
  <2>2. ASSUME NEW r \in Results, Deliver(w, r) PROVE AcceptsInv'
    <3>1. /\ job[w] \in Jobs /\ pc[w] = "smtp" /\ ref[w] \in 1..MaxToken
          /\ ~Settled(job[w]) /\ faults' = faults
          /\ \A k \in Jobs \ {job[w]} : accepts'[k] = accepts[k]
          /\ accepts'[job[w]] = IF r = "accepted" THEN accepts[job[w]] + 1 ELSE accepts[job[w]]
      BY <1>0, <2>2, UnsettledAtSmtp, CellTypes DEF Deliver, Holding
    <3>2. r = "accepted" => \A k \in Jobs : k = job[w] => Settled(k)'
      <4>1. Recordable(heap[ref[w]])
        BY <3>1, Outcomes, WorkerTypes DEF StagesInv, StageOK, Holding
      <4>2. pc'[w] = "append" /\ res'[w] = r /\ job'[w] = job[w]
        BY <2>2, <4>1 DEF Deliver, Goto, IInv, WorkerInv, WorkerTypeOK
      <4>3. QED
        BY <4>2 DEF Settled
    <3>3. ASSUME NEW k \in Jobs, k # job[w]
          PROVE  accepts'[k] <= faults' + 1 /\ (Settled(k)' \/ accepts'[k] <= faults')
      BY <1>4, <3>1, <3>3, SettledStays DEF AcceptsInv
    <3>4. accepts[job[w]] <= faults
      BY <3>1 DEF AcceptsInv
    <3>5. /\ accepts'[job[w]] <= faults' + 1
          /\ r # "accepted" => accepts'[job[w]] <= faults'
      BY <1>0, <3>1, <3>4
    <3>6. CASE r = "accepted"
      BY <2>2, <3>2, <3>3, <3>5, <3>6 DEF AcceptsInv
    <3>7. CASE r # "accepted"
      BY <3>3, <3>5, <3>7 DEF AcceptsInv
    <3>8. QED
      BY <3>6, <3>7
  <2>3. CASE ~Panic(w) /\ \A r \in Results : ~Deliver(w, r)
    <3>1. UNCHANGED <<faults, accepts>>
      BY <1>4, <2>3
         DEF Turn, WorkerStep, WorkerFault, LoadStatus, RestoreState,
             CheckSuppression, RecordSuppressed, BeginAttempt, RecordAttempt,
             EvaluateOutcome, ReadLatest, PersistOutcome, Ack, AckReplyLost,
             Release, LoadFails, HoldIfMemberDisabled, SuppressionUnknown,
             DeferForPermit, Defer, PersistReplyLost, QueueCallFails, Delay, history
    <3>2. QED
      BY <1>4, <2>3, <3>1, SettledStays DEF AcceptsInv
  <2>4. QED
    BY <2>1, <2>2, <2>3
<1>5. ASSUME NEW p \in Procs, Crash(p) PROVE AcceptsInv'
  <2>1. faults' = faults + 1 /\ UNCHANGED accepts
    BY <1>5 DEF Crash, Fault
  <2>2. QED
    BY <1>0, <2>1 DEF AcceptsInv
<1>6. QED
  BY <1>1, <1>2, <1>3, <1>4, <1>5, NextCases

\* If leases outlast the work, a peer accepts a message more than once only
\* through crashes and panics, each at the cost of one more acceptance, for
\* any number of processes with stale retry states.
THEOREM DuplicatesCostFaults == LeasesLast => (Spec => []DuplicatesNeedFaults)
<1> SUFFICES ASSUME LeasesLast PROVE Spec => []DuplicatesNeedFaults
  OBVIOUS
<1>1. Init => AcceptsInv
  BY DEF Init, AcceptsInv
<1>2. ASSUME WorkInv, AcceptsInv, [Next]_vars PROVE AcceptsInv'
  <2>1. CASE UNCHANGED vars
    BY <1>2, <2>1 DEF vars, pgVars, memVars, workerVars, history, AcceptsInv, Settled
  <2>2. QED
    BY <1>2, <2>1, AcceptsStep
<1>3. WorkInv /\ AcceptsInv /\ [Next]_vars => AcceptsInv'
  BY <1>2
<1>4. WorkInv /\ AcceptsInv => DuplicatesNeedFaults
  <2>1. ASSUME WorkInv, AcceptsInv, NEW m \in Jobs PROVE accepts[m] <= 1 + faults
    BY <2>1 DEF AcceptsInv, WorkInv, IInv, HistoryTypeOK
  <2>2. QED
    BY <2>1 DEF DuplicatesNeedFaults
<1>5. QED
  BY <1>1, <1>3, <1>4, WorkInvHolds, PTL DEF Spec

-----------------------------------------------------------------------------
(* One process: every operation starts from the stored attempts.           *)

SoleProcess == \A p, q \in Procs : p = q

\* The stored attempts of a message are numbered without a gap at the end.
DenseOK(m) ==
    /\ \A x \in rows[m] : x[1] <= Cardinality(rows[m])
    /\ rows[m] # {} => \E x \in rows[m] : x[1] = Cardinality(rows[m])

Ahead(s, m) == s.n = Cardinality(rows[m]) + 1

\* The cached state of an unfinished message is what its rows say, or one
\* attempt ahead of them while a worker is about to store that attempt.
TracksOK(p, m) ==
    cache[p][m] # 0 /\ status[m] \notin Finished =>
        \/ Restores(heap[cache[p][m]], m)
        \/ /\ Ahead(heap[cache[p][m]], m)
           /\ \E w \in Workers : job[w] = m /\ pc[w] \in Reported

\* An operation was performed for m that has no row yet.
Uncounted(m) ==
    \E w \in Workers : /\ job[w] = m
                       /\ \/ pc[w] = "append"
                          \/ pc[w] \in Reported /\ Ahead(heap[ref[w]], m)

SendsOK(m) ==
    /\ sends[m] <= Cardinality(rows[m]) + faults + 1
    /\ Uncounted(m) \/ sends[m] <= Cardinality(rows[m]) + faults

SoleInv == /\ \A m \in Jobs : DenseOK(m) /\ SendsOK(m)
           /\ \A p \in Procs, m \in Jobs : TracksOK(p, m)

(* The rows of a message are a finite set of pairs.                         *)
LEMMA RowTypes ==
    ASSUME IInv, NEW m \in Jobs
    PROVE  /\ IsFiniteSet(rows[m]) /\ Cardinality(rows[m]) \in Nat
           /\ rows[m] \subseteq Nat \X Results
           /\ rows[m] = {} <=> Cardinality(rows[m]) = 0
           /\ sends[m] \in Nat /\ faults \in Nat
BY FS_CardinalityType, FS_EmptySet DEF IInv, DatabaseInv, DatabaseTypeOK, NumbersAreKeys,
   HistoryTypeOK

(* A worker that does not hold a reported attempt finds the rows' state.    *)
LEMMA FromDurable ==
    ASSUME WorkInv, SoleInv, NEW w \in Workers, pc[w] \in Holding,
           pc[w] \notin Reported
    PROVE  Restores(heap[ref[w]], job[w])
<1>1. /\ ref[w] = cache[ProcOf[w]][job[w]] /\ ref[w] # 0
      /\ ProcOf[w] \in Procs /\ job[w] \in Jobs /\ pc[w] # "idle"
  BY CellTypes DEF WorkInv, CellsInv
<1>2. status[job[w]] \notin Finished
  BY DEF WorkInv, EndsInv, EndsOK, Reported
<1>3. ~ \E v \in Workers : job[v] = job[w] /\ pc[v] \in Reported
  BY <1>1, Alone DEF WorkInv, Reported
<1>4. QED
  BY <1>1, <1>2, <1>3 DEF SoleInv, TracksOK

(* Storing an attempt makes the rows and the state one.                     *)
LEMMA StoredTracks ==
    ASSUME WorkInv, SoleInv, NEW w \in Workers, Stores(w), NEW m \in Jobs, m = job[w],
           status[m] \notin Finished
    PROVE  LET s == heap[ref[w]]
               c == Cardinality(rows[m])
           IN  /\ s.n = Cardinality(rows'[m])
               /\ <<s.n, s.last>> \in rows'[m]
               /\ \A x \in rows'[m] : x[1] <= s.n
               /\ Ahead(s, m) => Cardinality(rows'[m]) = c + 1
               /\ ~Ahead(s, m) => Cardinality(rows'[m]) = c
<1> DEFINE s == heap[ref[w]]
           c == Cardinality(rows[m])
           new == <<s.n, s.last>>
<1>1. pc[w] = "persist"
  BY DEF Stores
<1>2. /\ s \in States /\ s.n \in Nat /\ s.n # 0
      /\ rows'[m] = rows[m] \cup {new}
  BY <1>1, AboutToStore, StoredRows, Values
<1>3. /\ ref[w] = cache[ProcOf[w]][m] /\ ref[w] # 0 /\ ProcOf[w] \in Procs
  BY <1>1, CellTypes DEF WorkInv, CellsInv, Holding
<1>4. Restores(s, m) \/ Ahead(s, m)
  BY <1>3 DEF SoleInv, TracksOK
<1>5. DenseOK(m)
  BY DEF SoleInv
<1>6. /\ IsFiniteSet(rows[m]) /\ c \in Nat /\ rows[m] \subseteq Nat \X Results
      /\ rows[m] = {} <=> c = 0
  BY RowTypes DEF WorkInv
<1>7. CASE Restores(s, m) /\ ~Ahead(s, m)
  <2>1. s.n = c /\ rows[m] # {}
    BY <1>2, <1>6, <1>7 DEF Restores
  <2>2. PICK x \in rows[m] : s.last = x[2] /\ \A y \in rows[m] : y[1] <= x[1]
    BY <1>7, <2>1 DEF Restores
  <2>3. PICK y \in rows[m] : y[1] = c
    BY <1>5, <2>1 DEF DenseOK
  <2>4. x[1] \in Nat /\ x[1] <= c /\ c <= x[1]
    BY <1>5, <1>6, <2>2, <2>3 DEF DenseOK
  <2>5. x[1] = c
    BY <1>6, <2>4
  <2>6. x = new
    BY <1>6, <2>1, <2>2, <2>5
  <2>7. rows'[m] = rows[m]
    BY <1>2, <2>6
  <2>8. QED
    BY <1>5, <1>7, <2>1, <2>6, <2>7 DEF DenseOK
<1>8. CASE Ahead(s, m)
  <2>1. s.n = c + 1
    BY <1>8 DEF Ahead
  <2>2. \A x \in rows[m] : x[1] \in Nat /\ x[1] <= c
    BY <1>5, <1>6 DEF DenseOK
  <2>3. new \notin rows[m]
    BY <1>6, <2>1, <2>2
  <2>4. Cardinality(rows[m] \cup {new}) = c + 1
    BY <1>6, <2>3, FS_AddElement
  <2>5. \A x \in rows[m] \cup {new} : x[1] <= s.n
    BY <1>6, <2>1, <2>2
  <2>6. QED
    BY <1>2, <1>8, <2>1, <2>4, <2>5
<1>9. QED
  BY <1>4, <1>7, <1>8

(* The rows stay numbered without a gap at the end.                         *)
LEMMA DenseStep ==
    ASSUME LeasesLast, WorkInv, SoleInv, Next, NEW k \in Jobs
    PROVE  DenseOK(k)'
<1>0. DenseOK(k)
  BY DEF SoleInv
<1>1. CASE rows'[k] = rows[k]
  BY <1>0, <1>1 DEF DenseOK
<1>2. ASSUME NEW w \in Workers, Stores(w), k = job[w], status[k] \notin Finished
      PROVE  DenseOK(k)'
  <2> DEFINE s == heap[ref[w]]
  <2>1. /\ s.n = Cardinality(rows'[k]) /\ <<s.n, s.last>> \in rows'[k]
        /\ \A x \in rows'[k] : x[1] <= s.n
    BY <1>2, StoredTracks
  <2>2. <<s.n, s.last>>[1] = Cardinality(rows'[k])
    BY <2>1
  <2>3. QED
    BY <2>1, <2>2 DEF DenseOK
<1>3. ASSUME NEW w \in Workers, Turn(w) PROVE DenseOK(k)'
  BY <1>1, <1>2, <1>3, OtherRows, RowCases, StoredRows DEF Suppresses
<1>4. QED
  BY <1>1, <1>3, NextCases DEF Quiet, Accept, Claim, Crash, pgVars

(* The cached state keeps following the rows.                               *)
LEMMA TracksStep ==
    ASSUME LeasesLast, SoleProcess, WorkInv, SoleInv, Next,
           NEW p \in Procs, NEW k \in Jobs
    PROVE  TracksOK(p, k)'
<1>0. TracksOK(p, k) /\ (status[k] \in Finished => status'[k] \in Finished)
  BY FinalStep DEF SoleInv
<1>1. CASE UNCHANGED <<memVars, rows, pc, job>>
  BY <1>0, <1>1 DEF TracksOK, Restores, Ahead, memVars
<1>2. ASSUME NEW w \in Workers, NEW E \in SUBSET Owned, NEW m \in Jobs, Claim(w, E, m)
      PROVE  TracksOK(p, k)'
  <2>1. /\ UNCHANGED <<memVars, rows, status>> /\ pc[w] = "idle"
        /\ \A v \in Workers \ {w} : pc'[v] = pc[v] /\ job'[v] = job[v]
    BY <1>2 DEF Claim, Goto, pgVars, WorkInv, IInv, WorkerInv, WorkerTypeOK
  <2>2. ASSUME NEW v \in Workers, job[v] = k, pc[v] \in Reported
        PROVE  job'[v] = k /\ pc'[v] \in Reported
    BY <2>1, <2>2 DEF Reported
  <2>3. QED
    BY <1>0, <2>1, <2>2 DEF TracksOK, Restores, Ahead, memVars
<1>3. ASSUME NEW w \in Workers, Turn(w), k # job[w] PROVE TracksOK(p, k)'
  <2>1. /\ cache'[p][k] = cache[p][k] /\ rows'[k] = rows[k]
        /\ cache[p][k] # 0 => heap'[cache[p][k]] = heap[cache[p][k]]
    BY <1>3, OtherCells, OtherRows DEF WorkInv
  <2>2. ASSUME NEW v \in Workers, job[v] = k, pc[v] \in Reported
        PROVE  job'[v] = k /\ pc'[v] \in Reported
    BY <1>3, <2>2, OthersStill DEF WorkInv, Still
  <2>3. QED
    BY <1>0, <2>1, <2>2 DEF TracksOK, Restores, Ahead
<1>4. ASSUME NEW w \in Workers, Turn(w), k = job[w], status'[k] \notin Finished
      PROVE  TracksOK(p, k)'
  <2>0. /\ p = ProcOf[w] /\ status[k] \notin Finished /\ pc[w] # "idle"
    BY <1>0, <1>4, OwnTurn, CellTypes DEF SoleProcess, WorkInv
  <2>1. CASE Stores(w)
    <3> DEFINE s == heap[ref[w]]
    <3>1. /\ s.n = Cardinality(rows'[k]) /\ <<s.n, s.last>> \in rows'[k]
          /\ \A x \in rows'[k] : x[1] <= s.n
      BY <1>4, <2>0, <2>1, StoredTracks
    <3>2. UNCHANGED memVars /\ ref[w] = cache[p][k]
      BY <1>4, <2>0, <2>1 DEF Stores, WorkInv, CellsInv, Holding
    <3>3. <<s.n, s.last>>[1] = s.n /\ <<s.n, s.last>>[2] = s.last
      OBVIOUS
    <3>4. Restores(heap[cache[p][k]], k)'
      BY <3>1, <3>2, <3>3 DEF Restores, memVars
    <3>5. QED
      BY <3>4 DEF TracksOK
  <2>2. CASE ~Stores(w) /\ pc[w] \in Reported
    <3>1. /\ pc'[w] \in Reported /\ job'[w] = k /\ UNCHANGED memVars
          /\ rows'[k] = rows[k]
      BY <1>4, <2>2, ReportedStays, RowCases DEF Suppresses, Reported
    <3>2. QED
      BY <1>0, <2>0, <3>1 DEF TracksOK, Restores, Ahead, memVars
  <2>3. CASE pc[w] \notin Reported
    <3>1. ~ \E v \in Workers : job[v] = k /\ pc[v] \in Reported
      BY <1>4, <2>0, <2>3, Alone DEF WorkInv, Reported
    <3>2. cache[p][k] # 0 => Restores(heap[cache[p][k]], k)
      BY <1>0, <2>0, <3>1 DEF TracksOK
    <3>3. UNCHANGED rows
      BY <1>4, <2>3, RowCases DEF Stores, Suppresses, Reported
    <3>4. CASE UNCHANGED memVars
      BY <3>2, <3>3, <3>4 DEF TracksOK, Restores, memVars
    <3>5. ASSUME NEW s \in States, Restoring(w, s) PROVE TracksOK(p, k)'
      <4>1. cache'[p][k] = tok[w] /\ heap'[tok[w]] = s /\ Restores(s, k)
        BY <1>4, <2>0, <3>5, CellTypes DEF WorkInv, Restoring
      <4>2. QED
        BY <3>3, <4>1 DEF TracksOK, Restores
    <3>6. CASE Forgets(w)
      BY <1>4, <2>0, <3>6, CellTypes DEF WorkInv, Forgets, TracksOK
    <3>7. CASE RecordAttempt(w)
      <4>1. /\ pc[w] = "append" /\ ref[w] = cache[p][k] /\ ref[w] \in 1..MaxToken
            /\ base[w] = heap[ref[w]] /\ Restores(heap[ref[w]], k)
        BY <1>4, <2>0, <3>2, <3>7, CellTypes
           DEF RecordAttempt, WorkInv, CellsInv, StagesInv, StageOK, Holding
      <4>2. /\ heap'[cache'[p][k]].n = Cardinality(rows[k]) + 1
            /\ pc'[w] \in Reported /\ job'[w] = k
        BY <1>4, <3>7, <4>1, CellTypes
           DEF RecordAttempt, Recorded, Restores, Goto, Reported, WorkInv, IInv,
               WorkerInv, WorkerTypeOK
      <4>3. QED
        BY <3>3, <4>2 DEF TracksOK, Ahead
    <3>8. QED
      BY <1>4, <3>4, <3>5, <3>6, <3>7, CellCases DEF WorkInv, Looks, Finds
  <2>4. QED
    BY <2>1, <2>2, <2>3
<1>5. ASSUME NEW q \in Procs, Crash(q) PROVE TracksOK(p, k)'
  <2>1. cache'[p][k] = 0
    BY <1>5, CellTypes DEF Crash, SoleProcess, WorkInv
  <2>2. QED
    BY <2>1 DEF TracksOK
<1>6. CASE status'[k] \in Finished
  BY <1>6 DEF TracksOK
<1>7. QED
  BY <1>1, <1>2, <1>3, <1>4, <1>5, <1>6, NextCases
     DEF Quiet, Accept, workerVars

(* An operation that has no row yet is not forgotten, but by a panic.       *)
LEMMA UncountedStays ==
    ASSUME LeasesLast, WorkInv, SoleInv, Next, NEW w \in Workers, Turn(w), ~Panic(w),
           NEW k \in Jobs, Uncounted(k), ~Stores(w) \/ k # job[w]
    PROVE  Uncounted(k)'
<1> USE DEF WorkInv
<1>1. ASSUME NEW v \in Workers, v # w, job[v] = k,
             pc[v] = "append" \/ (pc[v] \in Reported /\ Ahead(heap[ref[v]], k))
      PROVE  Uncounted(k)'
  <2>1. k # job[w]
    BY <1>1, OwnTurn, Alone DEF Reported
  <2>2. /\ Still(v) /\ rows'[k] = rows[k] /\ heap'[ref[v]] = heap[ref[v]]
    BY <1>1, <2>1, OthersStill, OtherStates, OtherRows DEF Reported, Holding
  <2>3. QED
    BY <1>1, <2>2 DEF Uncounted, Still, Ahead
<1>2. CASE job[w] = k /\ pc[w] = "append"
  <2>1. RecordAttempt(w)
    BY <1>2 DEF Turn, WorkerStep, WorkerFault, LoadStatus, RestoreState,
       CheckSuppression, RecordSuppressed, BeginAttempt, Deliver,
       EvaluateOutcome, ReadLatest, PersistOutcome, Ack, AckReplyLost, Release,
       LoadFails, HoldIfMemberDisabled, SuppressionUnknown, DeferForPermit,
       Defer, PersistReplyLost, QueueCallFails
  <2>2. /\ ref[w] \in 1..MaxToken /\ base[w] = heap[ref[w]]
        /\ Restores(heap[ref[w]], k) /\ UNCHANGED rows
    BY <1>2, <2>1, CellTypes, FromDurable
       DEF Holding, Reported, StagesInv, StageOK, RecordAttempt, pgVars
  <2>3. /\ heap'[ref'[w]].n = Cardinality(rows[k]) + 1
        /\ pc'[w] \in Reported /\ job'[w] = k
    BY <1>2, <2>1, <2>2, CellTypes
       DEF RecordAttempt, Recorded, Restores, Goto, Reported, IInv,
           WorkerInv, WorkerTypeOK
  <2>4. QED
    BY <2>2, <2>3 DEF Uncounted, Ahead
<1>3. CASE job[w] = k /\ pc[w] \in Reported /\ Ahead(heap[ref[w]], k)
  <2>1. ~Stores(w)
    BY <1>3
  <2>2. rows'[k] = rows[k]
    BY <1>3, <2>1, RowCases DEF Suppresses, Reported
  <2>3. QED
    BY <1>3, <2>1, <2>2, ReportedStays DEF Uncounted, Ahead, memVars
<1>4. QED
  BY <1>1, <1>2, <1>3 DEF Uncounted

(* Storing counts the operation that has no row yet.                        *)
LEMMA StoredCounts ==
    ASSUME WorkInv, SoleInv, NEW w \in Workers, Stores(w), NEW k \in Jobs, k = job[w]
    PROVE  sends[k] <= Cardinality(rows'[k]) + faults
<1> DEFINE s == heap[ref[w]]
           c == Cardinality(rows[k])
<1>0. /\ pc[w] = "persist" /\ c \in Nat /\ sends[k] \in Nat /\ faults \in Nat
      /\ SendsOK(k) /\ DenseOK(k)
  BY RowTypes DEF Stores, WorkInv, SoleInv
<1>1. Uncounted(k) => Ahead(s, k)
  BY <1>0, Alone DEF WorkInv, Uncounted, Reported
<1>2. CASE status[k] \notin Finished
  <2>1. /\ Ahead(s, k) => Cardinality(rows'[k]) = c + 1
        /\ ~Ahead(s, k) => Cardinality(rows'[k]) = c
    BY <1>2, StoredTracks
  <2>2. CASE Ahead(s, k)
    BY <1>0, <2>1, <2>2 DEF SendsOK
  <2>3. CASE ~Ahead(s, k)
    BY <1>0, <1>1, <2>1, <2>3 DEF SendsOK
  <2>4. QED
    BY <2>2, <2>3
<1>3. CASE status[k] \in Finished
  <2>1. Duplicate(w) /\ rows'[k] = rows[k]
    BY <1>0, <1>3, StoredRows DEF WorkInv, EndsInv, EndsOK, Holding
  <2>2. Number(w) = s.n /\ s.n \in Nat
    BY <1>0, AboutToStore, Values
  <2>3. s.n <= c
    <3>1. <<s.n, res[w]>> \in rows[k] /\ <<s.n, res[w]>>[1] = s.n
      BY <2>1, <2>2 DEF Duplicate
    <3>2. QED
      BY <1>0, <3>1 DEF DenseOK
  <2>4. ~Ahead(s, k)
    BY <1>0, <2>2, <2>3 DEF Ahead
  <2>5. QED
    BY <1>0, <1>1, <2>1, <2>4 DEF SendsOK
<1>4. QED
  BY <1>2, <1>3

(* Every step keeps the account of operations.                              *)
LEMMA SendsStep ==
    ASSUME LeasesLast, WorkInv, SoleInv, Next, NEW k \in Jobs
    PROVE  SendsOK(k)'
<1> USE DEF WorkInv
<1>0. /\ SendsOK(k) /\ Cardinality(rows[k]) \in Nat /\ sends[k] \in Nat /\ faults \in Nat
  BY RowTypes DEF SoleInv
<1>1. ASSUME UNCHANGED <<faults>>, sends'[k] = sends[k], rows'[k] = rows[k],
             Uncounted(k) => Uncounted(k)'
      PROVE  SendsOK(k)'
  BY <1>0, <1>1 DEF SendsOK
<1>2. ASSUME faults' = faults + 1, sends'[k] = sends[k], rows'[k] = rows[k]
      PROVE  SendsOK(k)'
  BY <1>0, <1>2 DEF SendsOK
<1>3. CASE UNCHANGED <<memVars, workerVars, rows, sends, faults>>
  <2>1. Uncounted(k) => Uncounted(k)'
    BY <1>3 DEF Uncounted, Ahead, memVars, workerVars
  <2>2. QED
    BY <1>1, <1>3, <2>1
<1>4. ASSUME NEW w \in Workers, NEW E \in SUBSET Owned, NEW m \in Jobs, Claim(w, E, m)
      PROVE  SendsOK(k)'
  <2>1. /\ UNCHANGED <<memVars, rows, ref, sends>> /\ pc[w] = "idle"
        /\ \A v \in Workers \ {w} : pc'[v] = pc[v] /\ job'[v] = job[v]
    BY <1>4 DEF Claim, Goto, pgVars, IInv, WorkerInv, WorkerTypeOK
  <2>2. Uncounted(k) => Uncounted(k)'
    BY <2>1 DEF Uncounted, Ahead, Reported, memVars
  <2>3. UNCHANGED faults
    BY <1>4 DEF Claim, LeasesLast
  <2>4. QED
    BY <1>1, <2>1, <2>2, <2>3
<1>5. ASSUME NEW w \in Workers, Turn(w) PROVE SendsOK(k)'
  <2>1. CASE Panic(w)
    BY <1>2, <2>1 DEF Panic, Fault, pgVars
  <2>2. ASSUME NEW r \in Results, Deliver(w, r) PROVE SendsOK(k)'
    <3>1. /\ UNCHANGED <<rows, faults>> /\ pc[w] = "smtp" /\ job[w] \in Jobs
          /\ k # job[w] => sends'[k] = sends[k]
          /\ k = job[w] => sends'[k] = sends[k] + 1
      BY <2>2, CellTypes DEF Deliver, pgVars, IInv, HistoryTypeOK
    <3>2. ~Panic(w) /\ ~Stores(w)
      <4>1. ~Stores(w)
        BY <3>1 DEF Stores
      <4>2. ~Fault
        BY <1>0, <3>1 DEF Fault
      <4>3. QED
        BY <4>1, <4>2 DEF Panic
    <3>3. CASE k # job[w]
      BY <1>1, <1>5, <3>1, <3>2, <3>3, UncountedStays
    <3>4. CASE k = job[w]
      <4>1. ~Uncounted(k)
        BY <3>1, <3>4, Alone DEF Uncounted, Reported
      <4>2. Recordable(heap[ref[w]])
        BY <3>1, Outcomes, WorkerTypes DEF StagesInv, StageOK, Holding
      <4>3. pc'[w] = "append" /\ job'[w] = k
        BY <2>2, <3>4, <4>2 DEF Deliver, Goto, IInv, WorkerInv, WorkerTypeOK
      <4>4. Uncounted(k)'
        BY <4>3 DEF Uncounted
      <4>5. sends[k] <= Cardinality(rows[k]) + faults
        BY <1>0, <4>1 DEF SendsOK
      <4>6. sends'[k] <= Cardinality(rows'[k]) + faults' + 1
        BY <1>0, <3>1, <3>4, <4>5
      <4>7. QED
        BY <4>4, <4>6 DEF SendsOK
    <3>5. QED
      BY <3>3, <3>4
  <2>3. CASE ~Panic(w) /\ \A r \in Results : ~Deliver(w, r)
    <3>1. UNCHANGED <<faults, sends>>
      BY <1>5, <2>3
         DEF Turn, WorkerStep, WorkerFault, LoadStatus, RestoreState,
             CheckSuppression, RecordSuppressed, BeginAttempt, RecordAttempt,
             EvaluateOutcome, ReadLatest, PersistOutcome, Ack, AckReplyLost,
             Release, LoadFails, HoldIfMemberDisabled, SuppressionUnknown,
             DeferForPermit, Defer, PersistReplyLost, QueueCallFails, Delay, history
    <3>2. CASE Stores(w) /\ k = job[w]
      <4>1. sends[k] <= Cardinality(rows'[k]) + faults
        BY <3>2, StoredCounts
      <4>2. Cardinality(rows'[k]) \in Nat
        <5>1. IsFiniteSet(rows'[k])
          <6>1. IsFiniteSet(rows[k] \cup {<<Number(w), res[w]>>})
            BY RowTypes, FS_AddElement
          <6>2. QED
            BY <3>2, <6>1, StoredRows
        <5>2. QED
          BY <5>1, FS_CardinalityType
      <4>3. QED
        BY <1>0, <3>1, <4>1, <4>2 DEF SendsOK
    <3>3. CASE ~Stores(w) \/ k # job[w]
      <4>1. rows'[k] = rows[k]
        BY <1>5, <3>3, RowCases, OtherRows DEF Suppresses
      <4>2. QED
        BY <1>1, <1>5, <2>3, <3>1, <3>3, <4>1, UncountedStays
    <3>4. QED
      BY <3>2, <3>3
  <2>4. QED
    BY <2>1, <2>2, <2>3
<1>6. ASSUME NEW p \in Procs, Crash(p) PROVE SendsOK(k)'
  BY <1>2, <1>6 DEF Crash, Fault, pgVars
<1>7. QED
  BY <1>3, <1>4, <1>5, <1>6, NextCases DEF Quiet, Accept, history

(* The invariant bounds the operations by the attempt limit.                *)
LEMMA SoleIsSound ==
    ASSUME WorkInv, SoleInv
    PROVE  OperationsBounded /\ StartsFromDurable
<1> USE DEF WorkInv
<1>1. StartsFromDurable
  BY FromDurable DEF StartsFromDurable, Holding, Reported
<1>2. ASSUME NEW m \in Jobs PROVE sends[m] <= MaxAttempts + faults
  <2> DEFINE c == Cardinality(rows[m])
  <2>0. /\ c \in Nat /\ sends[m] \in Nat /\ faults \in Nat /\ MaxAttempts \in Nat
        /\ SendsOK(m) /\ DenseOK(m) /\ RowsOK(m) /\ (rows[m] = {} <=> c = 0)
    BY RowTypes, DeliveryAssumption DEF SoleInv, EndsInv
  <2>1. c <= MaxAttempts
    <3>1. CASE rows[m] = {}
      BY <2>0, <3>1
    <3>2. CASE rows[m] # {}
      BY <2>0, <3>2 DEF DenseOK, RowsOK
    <3>3. QED
      BY <3>1, <3>2
  <2>2. CASE ~Uncounted(m)
    BY <2>0, <2>1, <2>2 DEF SendsOK
  <2>3. CASE Uncounted(m)
    <3>1. PICK w \in Workers : /\ job[w] = m
                               /\ \/ pc[w] = "append"
                                  \/ pc[w] \in Reported /\ Ahead(heap[ref[w]], m)
      BY <2>3 DEF Uncounted
    <3>2. StageOK(w) /\ heap[ref[w]] \in States
      BY <3>1, WorkerTypes DEF StagesInv, Holding, Reported
    <3>3. c + 1 <= MaxAttempts
      <4>1. CASE pc[w] = "append"
        <5>1. Restores(heap[ref[w]], m)
          BY <3>1, <4>1, FromDurable DEF Holding, Reported
        <5>2. c < MaxAttempts
          BY <3>2, <4>1, <5>1, Outcomes DEF Restores, StageOK
        <5>3. QED
          BY <2>0, <5>2
      <4>2. CASE pc[w] \in Reported /\ Ahead(heap[ref[w]], m)
        BY <2>0, <3>2, <4>2 DEF StageOK, Ahead
      <4>3. QED
        BY <3>1, <4>1, <4>2
    <3>4. QED
      BY <2>0, <3>3 DEF SendsOK
  <2>4. QED
    BY <2>2, <2>3
<1>3. QED
  BY <1>1, <1>2 DEF OperationsBounded

\* In one process, if leases outlast the work, every SMTP operation starts
\* from exactly the stored attempts of its message, and the attempt limit
\* bounds the operations up to one for each crash or panic, for any number of
\* workers and messages.
THEOREM OperationsStaySound ==
    LeasesLast /\ SoleProcess => (Spec => []OperationsAreSound)
<1> SUFFICES ASSUME LeasesLast, SoleProcess PROVE Spec => []OperationsAreSound
  OBVIOUS
<1>1. Init => SoleInv
  <2>1. ASSUME Init, NEW m \in Jobs PROVE DenseOK(m) /\ SendsOK(m)
    <3>1. rows[m] = {} /\ sends[m] = 0 /\ faults = 0
      BY <2>1 DEF Init
    <3>2. Cardinality({}) = 0
      BY FS_EmptySet
    <3>3. QED
      BY <3>1, <3>2 DEF DenseOK, SendsOK
  <2>2. ASSUME Init, NEW p \in Procs, NEW m \in Jobs PROVE TracksOK(p, m)
    BY <2>2 DEF Init, TracksOK
  <2>3. QED
    BY <2>1, <2>2 DEF SoleInv
<1>2. ASSUME WorkInv, SoleInv, [Next]_vars PROVE SoleInv'
  <2>1. CASE UNCHANGED vars
    BY <1>2, <2>1 DEF vars, pgVars, memVars, workerVars, history, SoleInv,
       DenseOK, SendsOK, TracksOK, Uncounted, Ahead, Restores
  <2>2. CASE Next
    <3>1. \A m \in Jobs : DenseOK(m)' /\ SendsOK(m)'
      BY <1>2, <2>2, DenseStep, SendsStep
    <3>2. \A p \in Procs, m \in Jobs : TracksOK(p, m)'
      BY <1>2, <2>2, TracksStep
    <3>3. QED
      BY <3>1, <3>2 DEF SoleInv
  <2>3. QED
    BY <1>2, <2>1, <2>2
<1>3. WorkInv /\ SoleInv /\ [Next]_vars => SoleInv'
  BY <1>2
<1>4. WorkInv /\ SoleInv /\ TypeOK => OperationsAreSound
  BY SoleIsSound DEF OperationsAreSound
<1>5. QED
  BY <1>1, <1>3, <1>4, WorkInvHolds, DeliveryTypeCorrect, PTL DEF Spec
=============================================================================
