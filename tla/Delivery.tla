------------------------------ MODULE Delivery ------------------------------
(***************************************************************************)
(* The life of an accepted message: the transactional outbox, the          *)
(* dispatcher, the job queue, the worker pool with its process-local retry *)
(* states, the SMTP operation, and the PostgreSQL rows that record it.     *)
(*                                                                         *)
(* A step is one call that another process can observe: one Redis script,  *)
(* one SQL statement or transaction, one SMTP operation.  The job queue is *)
(* the contract JobQueue, which RedisQueue implements; the dispatcher uses *)
(* the message ID as the job ID, so Jobs are the messages.                 *)
(***************************************************************************)
EXTENDS JobQueue

CONSTANTS Procs, Workers,
          ProcOf,       \* ProcOf[w]: the process worker w runs in
          TempReplies,  \* the temporary failures (kind and code) a peer gives
          MaxAttempts,  \* retry.AttemptLimit
          LapseLive,    \* may a live worker outlast its lease?
          PanicPlaces,  \* where a panic may strike a worker
          MaxFaults,    \* bound on crashes, panics and leases lost in use
          MaxDelays,    \* bound on failing calls, shut gates and policy edits
          MaxToken      \* bound on issued

ASSUME DeliveryAssumption ==
    /\ ProcOf \in [Workers -> Procs]
    /\ TempReplies \cap {"accepted", "permanent", "hardbounce", "none"} = {}
    /\ MaxAttempts \in Nat \ {0}
    /\ LapseLive \in BOOLEAN
    /\ PanicPlaces \subseteq {"smtp", "append", "evaluate", "latest", "persist"}
    /\ MaxFaults \in Nat /\ MaxDelays \in Nat /\ MaxToken \in Nat

VARIABLES
    \* PostgreSQL
    status,      \* messages.status
    rows,        \* delivery_attempts: pairs <<attempt_number, result>>
    waiting,     \* the stored next_retry_at is still in the future
    blocked,     \* how many of m's recipients are suppressed
    skipped,     \* recipients recorded as suppressed, with their event
    outbox,      \* the message's outbox row
    \* each process
    disp,        \* disp[p]: the message its dispatcher works on, and where
    cache,       \* stateStore.states: cache[p][m], a pointer, 0 for none
    heap,        \* the retry.State a pointer names
    \* each worker goroutine
    pc, job, tok,
    ref,         \* the state it uses, a pointer into heap
    seen,        \* the status, then the suppression, it read
    res, base,   \* the result to record, and the state read with it
    verdict,     \* Outcome.Status
    later,       \* release for later rather than for now
    \* what happened
    sends,       \* SMTP operations performed for m
    accepts,     \* how many of them the peer accepted
    faults,      \* crashes, panics and leases lost in use
    delays       \* failing calls, shut gates and policy edits

pgVars == <<status, rows, waiting, blocked, skipped, outbox>>
workerVars == <<pc, job, tok, ref, seen, res, base, verdict, later>>
memVars == <<cache, heap>>
history == <<sends, accepts, faults, delays>>
vars == <<queueVars, pgVars, disp, memVars, workerVars, history>>

-----------------------------------------------------------------------------
(* Values.                                                                 *)

Results == {"accepted", "permanent", "hardbounce"} \cup TempReplies
NoResult == "none"
Statuses == {"none", "queued", "retrying", "delivered", "failed", "suppressed"}
NoJob == "nojob"
Verdicts == {"empty", "retryable", "succeeded", "failed", "exhausted"}

\* A retry.State, as far as anyone asks: how many attempts, and the latest.
States == {s \in [n : Nat, last : Results \cup {NoResult}] :
              s.n = 0 <=> s.last = NoResult}
EmptyState == [n |-> 0, last |-> NoResult]

\* Mutant: a failure after acceptance (of QUIT, say) hides the acceptance.
Decide_ForgetsAcceptance(r) ==
    IF r \in TempReplies \cup {"accepted"} THEN "retry" ELSE "failure"

\* retry.Decide
Decide(r) == CASE r = "accepted" -> "success"
               [] r \in TempReplies -> "retry"
               [] OTHER -> "failure"

\* Mutant: the limit is off by one.
Evaluate_OneMore(s) ==
    CASE s.n = 0 -> "empty"
      [] s.n > 0 /\ Decide(s.last) = "success" -> "succeeded"
      [] s.n > 0 /\ Decide(s.last) = "failure" -> "failed"
      [] OTHER -> IF s.n > MaxAttempts THEN "exhausted" ELSE "retryable"

\* retry.Evaluate
Evaluate(s) ==
    CASE s.n = 0 -> "empty"
      [] s.n > 0 /\ Decide(s.last) = "success" -> "succeeded"
      [] s.n > 0 /\ Decide(s.last) = "failure" -> "failed"
      [] OTHER -> IF s.n >= MaxAttempts THEN "exhausted" ELSE "retryable"

\* Mutants: failed is left out of the terminal statuses; retrying is let in.
Terminal_LacksFailed(st) == st \in {"delivered", "suppressed"}
Terminal_HasRetrying(st) == st \in {"delivered", "failed", "suppressed", "retrying"}

\* DeliveryState.Terminal
Terminal(st) == st \in {"delivered", "failed", "suppressed"}

\* Mutant: the event type is returned in the status's place.
classifyDeliveryOutcome_Event(r, exhausted) ==
    CASE Decide(r) = "success" -> "delivered"
      [] Decide(r) = "retry" -> IF exhausted THEN "failed" ELSE "deferred"
      [] OTHER -> "failed"

\* classifyDeliveryOutcome
classifyDeliveryOutcome(r, exhausted) ==
    CASE Decide(r) = "success" -> "delivered"
      [] Decide(r) = "retry" -> IF exhausted THEN "failed" ELSE "retrying"
      [] OTHER -> "failed"

\* State.Record: an attempt after a terminal one is refused.
Recordable(s) == s.n = 0 \/ Decide(s.last) = "retry"
Recorded(s, r) == [n |-> s.n + 1, last |-> r]

\* databaseOutcomeStore.Load: Record every stored attempt of m in order.  s is
\* the state that results; Record refuses when a terminal row is not the last.
Restores(s, m) ==
    /\ s.n = Cardinality(rows[m])
    /\ rows[m] = {} => s.last = NoResult
    /\ rows[m] # {} => \E x \in rows[m] : /\ s.last = x[2]
                                         /\ \A y \in rows[m] : y[1] <= x[1]
Restorable(m) ==
    \A x, y \in rows[m] : x[1] < y[1] => Decide(x[2]) = "retry"

Places == {"idle", "load", "restore", "suppress", "record", "permit", "smtp",
           "append", "evaluate", "latest", "persist", "ack", "release"}

DatabaseTypeOK ==
    /\ status \in [Jobs -> Statuses]
    /\ rows \in [Jobs -> SUBSET (Nat \X Results)]
    /\ waiting \in [Jobs -> BOOLEAN]
    /\ blocked \in [Jobs -> {"none", "some", "all"}]
    /\ skipped \in [Jobs -> BOOLEAN]
    /\ outbox \in [Jobs -> {"none", "pending", "dispatched"}]

ProcessTypeOK ==
    /\ disp \in [Procs -> [at : {"idle"}] \cup
                          [at : {"listed", "enqueued"}, msg : Jobs]]
    /\ cache \in [Procs -> [Jobs -> 0..MaxToken]]
    /\ heap \in [1..MaxToken -> States]

WorkerTypeOK ==
    /\ pc \in [Workers -> Places]
    /\ job \in [Workers -> Jobs \cup {NoJob}]
    /\ tok \in [Workers -> 0..MaxToken]
    /\ ref \in [Workers -> 0..MaxToken]
    /\ seen \in [Workers -> Statuses \cup {"some", "all"}]
    /\ res \in [Workers -> Results \cup {NoResult}]
    /\ base \in [Workers -> States]
    /\ verdict \in [Workers -> Verdicts]
    /\ later \in [Workers -> BOOLEAN]

HistoryTypeOK ==
    /\ sends \in [Jobs -> Nat] /\ accepts \in [Jobs -> Nat]
    /\ faults \in 0..MaxFaults /\ delays \in 0..MaxDelays

\* Every variable holds a value its column, field or counter can hold.
TypeOK == QueueTypeOK /\ DatabaseTypeOK /\ ProcessTypeOK /\ WorkerTypeOK
          /\ HistoryTypeOK

Init ==
    /\ QueueInit
    /\ status = [m \in Jobs |-> "none"]
    /\ rows = [m \in Jobs |-> {}]
    /\ waiting = [m \in Jobs |-> FALSE]
    /\ blocked = [m \in Jobs |-> "none"]
    /\ skipped = [m \in Jobs |-> FALSE]
    /\ outbox = [m \in Jobs |-> "none"]
    /\ disp = [p \in Procs |-> [at |-> "idle"]]
    /\ cache = [p \in Procs |-> [m \in Jobs |-> 0]]
    /\ heap = [i \in 1..MaxToken |-> EmptyState]
    /\ pc = [w \in Workers |-> "idle"]
    /\ job = [w \in Workers |-> NoJob]
    /\ tok = [w \in Workers |-> 0]
    /\ ref = [w \in Workers |-> 0]
    /\ seen = [w \in Workers |-> "none"]
    /\ res = [w \in Workers |-> NoResult]
    /\ base = [w \in Workers |-> EmptyState]
    /\ verdict = [w \in Workers |-> "empty"]
    /\ later = [w \in Workers |-> FALSE]
    /\ sends = [m \in Jobs |-> 0] /\ accepts = [m \in Jobs |-> 0]
    /\ faults = 0 /\ delays = 0

-----------------------------------------------------------------------------
(* Acceptance, dispatch, time and policy.                                  *)

\* InsertMessage: the message and its outbox row commit together.
Accept(m) ==
    /\ status[m] = "none"
    /\ status' = [status EXCEPT ![m] = "queued"]
    /\ outbox' = [outbox EXCEPT ![m] = "pending"]
    /\ UNCHANGED <<queueVars, rows, waiting, blocked, skipped, disp, memVars,
                   workerVars, history>>

\* Dispatcher.tick reads a pending row; what it read may be stale when used.
ListPendingOutbox(p, m) ==
    /\ disp[p].at = "idle" /\ outbox[m] = "pending"
    /\ disp' = [disp EXCEPT ![p] = [at |-> "listed", msg |-> m]]
    /\ UNCHANGED <<queueVars, pgVars, memVars, workerVars, history>>

\* Mutant: the row is marked before the job is in the queue.
DispatchEnqueue_MarksFirst(p) ==
    /\ disp[p].at = "listed"
    /\ outbox' = [outbox EXCEPT ![disp[p].msg] = "dispatched"]
    /\ disp' = [disp EXCEPT ![p] = [at |-> "enqueued", msg |-> disp[p].msg]]
    /\ UNCHANGED <<queueVars, status, rows, waiting, blocked, skipped,
                   memVars, workerVars, history>>

\* Enqueue, a no-op for an active job.  Listed rows are already due.
DispatchEnqueue(p) ==
    /\ disp[p].at = "listed"
    /\ LET m == disp[p].msg IN
       /\ \/ EnqueueJob(m, FALSE)
          \/ m \in active /\ UNCHANGED queueVars
       /\ disp' = [disp EXCEPT ![p] = [at |-> "enqueued", msg |-> m]]
    /\ UNCHANGED <<pgVars, memVars, workerVars, history>>

MarkOutboxDispatched(p) ==
    /\ disp[p].at = "enqueued"
    /\ outbox' = [outbox EXCEPT ![disp[p].msg] = "dispatched"]
    /\ disp' = [disp EXCEPT ![p] = [at |-> "idle"]]
    /\ UNCHANGED <<queueVars, status, rows, waiting, blocked, skipped,
                   memVars, workerVars, history>>

Fault == faults < MaxFaults /\ faults' = faults + 1 /\ UNCHANGED delays
Delay == delays < MaxDelays /\ delays' = delays + 1 /\ UNCHANGED faults

\* Redis or PostgreSQL fails under the dispatcher; the row stays pending.
DispatchFails(p) ==
    /\ disp[p].at # "idle" /\ Delay
    /\ disp' = [disp EXCEPT ![p] = [at |-> "idle"]]
    /\ UNCHANGED <<queueVars, pgVars, memVars, workerVars, sends, accepts>>

\* Time reaches the job's AvailableAt.  A retry is released until its stored
\* next_retry_at or later, so that has passed too.
RetryComesDue(m) ==
    /\ ComeDue({m})
    /\ waiting' = [waiting EXCEPT ![m] = FALSE]
    /\ UNCHANGED <<status, rows, blocked, skipped, outbox, disp, memVars,
                   workerVars, history>>

\* The tenant edits its suppression list.
SetSuppression(m, b) ==
    /\ Delay
    /\ blocked[m] # b
    /\ blocked' = [blocked EXCEPT ![m] = b]
    /\ UNCHANGED <<queueVars, status, rows, waiting, skipped, outbox, disp,
                   memVars, workerVars, sends, accepts>>

-----------------------------------------------------------------------------
(* Worker steps.  p, m and t name the worker's process, job and token.     *)

Goto(w, l) == pc' = [pc EXCEPT ![w] = l]

\* processOne is about to Release its claim, for later or for now.
ToRelease(w, d) == Goto(w, "release") /\ later' = [later EXCEPT ![w] = d]

\* The goroutines of ws return to the top of runWorker.
Idle(ws) ==
    /\ pc' = [w \in Workers |-> IF w \in ws THEN "idle" ELSE pc[w]]
    /\ job' = [w \in Workers |-> IF w \in ws THEN NoJob ELSE job[w]]
    /\ tok' = [w \in Workers |-> IF w \in ws THEN 0 ELSE tok[w]]
    /\ ref' = [w \in Workers |-> IF w \in ws THEN 0 ELSE ref[w]]
    /\ seen' = [w \in Workers |-> IF w \in ws THEN "none" ELSE seen[w]]
    /\ res' = [w \in Workers |-> IF w \in ws THEN NoResult ELSE res[w]]
    /\ base' = [w \in Workers |-> IF w \in ws THEN EmptyState ELSE base[w]]
    /\ verdict' = [w \in Workers |-> IF w \in ws THEN "empty" ELSE verdict[w]]
    /\ later' = [w \in Workers |-> IF w \in ws THEN FALSE ELSE later[w]]

\* Some worker is still acting on the claim that owns m.
Attended(m) == \E w \in Workers : pc[w] # "idle" /\ tok[w] = owner[m]

\* runWorker claims.  Claims nobody attends lapse in time; one that a slow
\* worker still acts on lapses only if the lease is too short for it.
Claim(w, E, m) ==
    /\ pc[w] = "idle" /\ issued < MaxToken
    /\ ClaimJob(E, m)
    /\ IF \E e \in E : Attended(e) THEN LapseLive /\ Fault
                                   ELSE UNCHANGED <<faults, delays>>
    /\ Goto(w, "load")
    /\ job' = [job EXCEPT ![w] = m]
    /\ tok' = [tok EXCEPT ![w] = issued + 1]
    /\ UNCHANGED <<pgVars, disp, memVars, ref, seen, res, base, verdict, later,
                   sends, accepts>>

\* LoadDeliveryState, first statement: a terminal message is only Ack'd.
LoadStatus(w) ==
    /\ pc[w] = "load"
    /\ IF Terminal(status[job[w]])
       THEN Goto(w, "ack") /\ UNCHANGED seen
       ELSE Goto(w, "restore") /\ seen' = [seen EXCEPT ![w] = status[job[w]]]
    /\ UNCHANGED <<queueVars, pgVars, disp, memVars, job, tok, ref, res, base,
                   verdict, later, history>>

\* Mutant: the durable attempts are not read back after a reclaim.
getOrSet_Empty(w, s) ==
    LET p == ProcOf[w] m == job[w] IN
    IF cache[p][m] # 0
    THEN ref' = [ref EXCEPT ![w] = cache[p][m]] /\ UNCHANGED memVars
    ELSE /\ ref' = [ref EXCEPT ![w] = tok[w]]
         /\ cache' = [cache EXCEPT ![p][m] = tok[w]]
         /\ heap' = [heap EXCEPT ![tok[w]] = EmptyState]

\* stateStore.getOrSet: a state already cached wins over the restored one.
getOrSet(w, s) ==
    LET p == ProcOf[w] m == job[w] IN
    IF cache[p][m] # 0
    THEN ref' = [ref EXCEPT ![w] = cache[p][m]] /\ UNCHANGED memVars
    ELSE /\ ref' = [ref EXCEPT ![w] = tok[w]]
         /\ cache' = [cache EXCEPT ![p][m] = tok[w]]
         /\ heap' = [heap EXCEPT ![tok[w]] = s]

\* The other statements of Load, the retry clock and the state cache.
RestoreState(w) ==
    /\ pc[w] = "restore"
    /\ LET m == job[w]
           early == seen[w] = "retrying" /\ waiting[m]
       IN  IF Restorable(m) /\ ~early
           THEN /\ \E s \in [n : {Cardinality(rows[m])},
                             last : Results \cup {NoResult}] :
                      Restores(s, m) /\ getOrSet(w, s)
                /\ Goto(w, "suppress") /\ UNCHANGED later
           ELSE ToRelease(w, Restorable(m)) /\ UNCHANGED <<memVars, ref>>
    /\ UNCHANGED <<queueVars, pgVars, disp, job, tok, seen, res, base,
                   verdict, history>>

\* enforceSuppression, the lookup.
CheckSuppression(w) ==
    /\ pc[w] = "suppress"
    /\ IF blocked[job[w]] = "none"
       THEN Goto(w, "permit") /\ UNCHANGED seen
       ELSE Goto(w, "record") /\ seen' = [seen EXCEPT ![w] = blocked[job[w]]]
    /\ UNCHANGED <<queueVars, pgVars, disp, memVars, job, tok, ref, res, base,
                   verdict, later, history>>

\* RecordSuppressedRecipients, and what the worker does with its answer.
RecordSuppressed(w) ==
    /\ pc[w] = "record"
    /\ LET m == job[w] IN
       IF Terminal(status[m])
       THEN /\ Goto(w, IF status[m] = "suppressed" /\ seen[w] = "some"
                       THEN "permit" ELSE "ack")
            /\ UNCHANGED <<status, skipped>>
       ELSE /\ skipped' = [skipped EXCEPT ![m] = TRUE]
            /\ IF seen[w] = "all"
               THEN status' = [status EXCEPT ![m] = "suppressed"] /\ Goto(w, "ack")
               ELSE Goto(w, "permit") /\ UNCHANGED status
    /\ UNCHANGED <<queueVars, rows, waiting, blocked, outbox, disp, memVars,
                   job, tok, ref, seen, res, base, verdict, later, history>>

\* Permits granted; Coordinator.Attempt refuses a state that is finished
\* (handleAttemptError then Acks) and otherwise starts the operation.
BeginAttempt(w) ==
    /\ pc[w] = "permit"
    /\ IF Evaluate(heap[ref[w]]) \in {"empty", "retryable"}
       THEN Goto(w, "smtp") ELSE Goto(w, "ack")
    /\ UNCHANGED <<queueVars, pgVars, disp, memVars, job, tok, ref, seen, res,
                   base, verdict, later, history>>

\* The SMTP operation ends with result r, and Record reads the state.  A
\* state finished meanwhile refuses the attempt, and the job is released.
Deliver(w, r) ==
    /\ pc[w] = "smtp"
    /\ sends' = [sends EXCEPT ![job[w]] = @ + 1]
    /\ accepts' = [accepts EXCEPT ![job[w]] = IF r = "accepted" THEN @ + 1 ELSE @]
    /\ IF Recordable(heap[ref[w]])
       THEN /\ res' = [res EXCEPT ![w] = r]
            /\ base' = [base EXCEPT ![w] = heap[ref[w]]]
            /\ Goto(w, "append") /\ UNCHANGED later
       ELSE ToRelease(w, FALSE) /\ UNCHANGED <<res, base>>
    /\ UNCHANGED <<queueVars, pgVars, disp, memVars, job, tok, ref, seen,
                   verdict, faults, delays>>

\* Record's append, unsynchronized: workers of one process that hold the
\* same state can overwrite each other here.
RecordAttempt(w) ==
    /\ pc[w] = "append"
    /\ heap' = [heap EXCEPT ![ref[w]] = Recorded(base[w], res[w])]
    /\ Goto(w, "evaluate")
    /\ UNCHANGED <<queueVars, pgVars, disp, cache, job, tok, ref, seen, res,
                   base, verdict, later, history>>

\* Coordinator.Attempt evaluates the state again and schedules a retry.
EvaluateOutcome(w) ==
    /\ pc[w] = "evaluate"
    /\ verdict' = [verdict EXCEPT ![w] = Evaluate(heap[ref[w]])]
    /\ Goto(w, "latest")
    /\ UNCHANGED <<queueVars, pgVars, disp, memVars, job, tok, ref, seen, res,
                   base, later, history>>

\* processOne takes state.Latest() as the attempt to persist.
ReadLatest(w) ==
    /\ pc[w] = "latest"
    /\ LET s == heap[ref[w]] IN
       IF s.n = 0
       THEN ToRelease(w, FALSE) /\ UNCHANGED <<base, res>>
       ELSE /\ base' = [base EXCEPT ![w] = s]
            /\ res' = [res EXCEPT ![w] = s.last]
            /\ Goto(w, "persist") /\ UNCHANGED later
    /\ UNCHANGED <<queueVars, pgVars, disp, memVars, job, tok, ref, seen,
                   verdict, history>>

-----------------------------------------------------------------------------
(* PersistDeliveryOutcome.                                                 *)

Number(w) == base[w].n
Exhausted(w) == verdict[w] = "exhausted"
Outcome(w) == classifyDeliveryOutcome(res[w], Exhausted(w))

\* classifyDeliveryOutcome rejects a terminal decision called exhausted.
Classified(w) == Exhausted(w) => Decide(res[w]) = "retry"

\* Mutants: an existing row is always, or never, a conflict.
Conflict_AnyRow(w) == \E x \in rows[job[w]] : x[1] = Number(w)
Conflict_Never(w) == FALSE

\* matchingAttemptExists, and its ErrConflict.
Duplicate(w) == <<Number(w), res[w]>> \in rows[job[w]]
Conflict(w) == \E x \in rows[job[w]] : x[1] = Number(w) /\ x[2] # res[w]

\* Mutant: only attempts that end the lifecycle get a row.
StoreOutcome_TerminalRows(w) ==
    LET m == job[w] IN
    /\ rows' = IF Outcome(w) = "retrying" THEN rows
               ELSE [rows EXCEPT ![m] = @ \cup {<<Number(w), res[w]>>}]
    /\ status' = [status EXCEPT ![m] = Outcome(w)]
    /\ waiting' = [waiting EXCEPT ![m] = Outcome(w) = "retrying"]
    /\ UNCHANGED <<blocked, skipped, outbox>>

\* The attempt row (unless it is there), the status (always), the event with
\* next_retry_at (unless it is there) and a hard bounce's suppression.
StoreOutcome(w) ==
    LET m == job[w] IN
    /\ rows' = [rows EXCEPT ![m] = @ \cup {<<Number(w), res[w]>>}]
    /\ status' = [status EXCEPT ![m] = Outcome(w)]
    /\ waiting' = IF Outcome(w) = "retrying" /\ ~Duplicate(w)
                  THEN [waiting EXCEPT ![m] = TRUE] ELSE waiting
    /\ IF res[w] = "hardbounce" /\ blocked[m] = "none"
       THEN \E b \in {"some", "all"} : blocked' = [blocked EXCEPT ![m] = b]
       ELSE UNCHANGED blocked
    /\ UNCHANGED <<skipped, outbox>>

\* ErrMessageTerminal: a new attempt for a message that is finished.
PersistRefused(w) == Terminal(status[job[w]]) /\ ~Duplicate(w)

\* Mutant: a failing Persist is given up and the claim finalized.
PersistOutcome_GivesUp(w) ==
    /\ pc[w] = "persist"
    /\ Goto(w, "ack")
    /\ UNCHANGED <<queueVars, pgVars, disp, memVars, job, tok, ref, seen, res,
                   base, verdict, later, history>>

\* persistOutcome: Renew (whose failure is only logged), then Persist, again
\* and again until it succeeds or finds the message terminal.  A conflicting
\* row or an unclassifiable outcome fails every time, so there the loop never
\* ends: no step is enabled.
PersistOutcome(w) ==
    /\ pc[w] = "persist" /\ Classified(w) /\ ~Conflict(w)
    /\ IF PersistRefused(w)
       THEN Goto(w, "ack") /\ UNCHANGED <<pgVars, later>>
       ELSE /\ StoreOutcome(w)
            /\ IF verdict[w] = "retryable"
               THEN ToRelease(w, TRUE)
               ELSE Goto(w, "ack") /\ UNCHANGED later
    /\ UNCHANGED <<queueVars, disp, memVars, job, tok, ref, seen, res, base,
                   verdict, history>>

\* The transaction commits but its reply is lost: the worker persists again.
PersistReplyLost(w) ==
    /\ pc[w] = "persist" /\ Classified(w) /\ ~Conflict(w) /\ ~PersistRefused(w)
    /\ Delay
    /\ StoreOutcome(w)
    /\ UNCHANGED <<queueVars, disp, memVars, workerVars, sends, accepts>>

-----------------------------------------------------------------------------
(* Finalizing the claim.  Ack and Release are fenced; the worker moves on  *)
(* whatever Redis answers, and forgets the cached state only after an Ack. *)

Forget(w) == cache' = [cache EXCEPT ![ProcOf[w]][job[w]] = 0]

Current(w) == job[w] \in Owned /\ owner[job[w]] = tok[w]

Ack(w) ==
    /\ pc[w] = "ack"
    /\ IF Current(w) THEN AckJob(job[w], tok[w]) /\ Forget(w)
                     ELSE UNCHANGED <<queueVars, cache>>
    /\ Idle({w})
    /\ UNCHANGED <<pgVars, disp, heap, history>>

\* The Ack is applied, its reply lost.
AckReplyLost(w) ==
    /\ pc[w] = "ack" /\ Current(w) /\ Delay
    /\ AckJob(job[w], tok[w])
    /\ Idle({w})
    /\ UNCHANGED <<pgVars, disp, memVars, sends, accepts>>

Release(w) ==
    /\ pc[w] = "release"
    /\ IF Current(w) THEN ReleaseJob(job[w], tok[w], later[w])
                     ELSE UNCHANGED queueVars
    /\ Idle({w})
    /\ UNCHANGED <<pgVars, disp, memVars, history>>

\* Redis is down: the claim is left to its lease.
QueueCallFails(w) ==
    /\ pc[w] \in {"ack", "release"} /\ Delay
    /\ Idle({w})
    /\ UNCHANGED <<queueVars, pgVars, disp, memVars, sends, accepts>>

-----------------------------------------------------------------------------
(* Deferrals and failures.                                                 *)

\* A call fails or a gate is shut: the job is released, nothing recorded.
Defer(w, places, d) ==
    /\ pc[w] \in places /\ Delay
    /\ ToRelease(w, d)
    /\ UNCHANGED <<queueVars, pgVars, disp, memVars, job, tok, ref, seen, res,
                   base, verdict, sends, accepts>>

LoadFails(w) == Defer(w, {"load", "restore", "suppress"}, FALSE)
HoldIfMemberDisabled(w) == Defer(w, {"restore"}, TRUE)
SuppressionUnknown(w) == Defer(w, {"suppress", "record"}, TRUE)
DeferForPermit(w) == Defer(w, {"permit"}, TRUE)

\* safeProcess: after a panic the job is released, unless the cached state
\* says the peer accepted it; then the claim is kept for its lease.
Panic(w) ==
    LET q == cache[ProcOf[w]][job[w]]
        took == q # 0 /\ heap[q].last = "accepted"
    IN  /\ pc[w] \in PanicPlaces /\ Fault
        /\ IF took THEN Idle({w})
                   ELSE ToRelease(w, FALSE) /\
                        UNCHANGED <<job, tok, ref, seen, res, base, verdict>>
        /\ UNCHANGED <<queueVars, pgVars, disp, memVars, sends, accepts>>

\* A process dies: goroutines, dispatcher and cached states are gone.
Crash(p) ==
    /\ Fault
    /\ Idle({w \in Workers : ProcOf[w] = p})
    /\ disp' = [disp EXCEPT ![p] = [at |-> "idle"]]
    /\ cache' = [cache EXCEPT ![p] = [m \in Jobs |-> 0]]
    /\ UNCHANGED <<queueVars, pgVars, heap, sends, accepts>>

-----------------------------------------------------------------------------
DispatchStep(p) ==
    \/ \E m \in Jobs : ListPendingOutbox(p, m)
    \/ DispatchEnqueue(p)
    \/ MarkOutboxDispatched(p)

ClaimStep == \E w \in Workers, E \in SUBSET Owned, m \in Jobs : Claim(w, E, m)

WorkerStep(w) ==
    \/ LoadStatus(w)
    \/ RestoreState(w)
    \/ CheckSuppression(w)
    \/ RecordSuppressed(w)
    \/ BeginAttempt(w)
    \/ \E r \in Results : Deliver(w, r)
    \/ RecordAttempt(w)
    \/ EvaluateOutcome(w)
    \/ ReadLatest(w)
    \/ PersistOutcome(w)
    \/ Ack(w)
    \/ Release(w)

FaultStep ==
    \/ \E p \in Procs : DispatchFails(p) \/ Crash(p)
    \/ \E w \in Workers :
        \/ LoadFails(w) \/ HoldIfMemberDisabled(w) \/ SuppressionUnknown(w)
        \/ DeferForPermit(w) \/ Panic(w) \/ PersistReplyLost(w)
        \/ QueueCallFails(w) \/ AckReplyLost(w)
    \/ \E m \in Jobs, b \in {"none", "some", "all"} : SetSuppression(m, b)

Next ==
    \/ \E m \in Jobs : Accept(m) \/ RetryComesDue(m)
    \/ \E p \in Procs : DispatchStep(p)
    \/ ClaimStep
    \/ \E w \in Workers : WorkerStep(w)
    \/ FaultStep

Spec == Init /\ [][Next]_vars

\* Loops keep running (Dispatcher.Run, runWorker) and time passes.
Fairness ==
    /\ \A p \in Procs : WF_vars(DispatchStep(p))
    /\ WF_vars(ClaimStep)
    /\ \A w \in Workers : WF_vars(WorkerStep(w))
    /\ \A m \in Jobs : WF_vars(RetryComesDue(m))

LiveSpec == Spec /\ Fairness

-----------------------------------------------------------------------------
(* Properties.                                                             *)

\* messages.status and the rows beside it tell one story, whichever workers,
\* with or without a claim, wrote them and in whatever order: delivered means
\* an accepted attempt, retrying a temporary failure, failed an attempt that
\* was not accepted, suppressed a recorded suppression, queued no attempt.
StatusMatchesRows ==
    \A m \in Jobs :
        /\ status[m] = "delivered" => \E x \in rows[m] : x[2] = "accepted"
        /\ status[m] = "retrying" => \E x \in rows[m] : x[2] \in TempReplies
        /\ status[m] = "failed" => \E x \in rows[m] : x[2] # "accepted"
        /\ status[m] = "suppressed" => skipped[m]
        /\ status[m] \in {"none", "queued"} => rows[m] = {}

\* A stored attempt is history: what the table says of its number stays
\* exactly that, although workers with stale states reuse numbers.
AttemptsAreImmutable ==
    [][\A m \in Jobs : \A x \in rows[m] :
          {y \in rows'[m] : y[1] = x[1]} = {x}]_vars

Finished == {"delivered", "failed", "suppressed"}

\* No accepted message is lost: until it is terminal it has an outbox row
\* still to be dispatched or a job in the queue.
NothingStranded ==
    \A m \in Jobs : status[m] \in {"queued", "retrying"} =>
        outbox[m] = "pending" \/ m \in active

\* architecture.md, invariant 4: an Ack removes the job only once the
\* delivery outcome is durable.
AckOnlyWhenDurable ==
    [][\A m \in Jobs : m \in active /\ m \notin active' => status[m] \in Finished]_vars

\* A terminal status stays, although workers that were late, and attempts
\* that are reported again, write the status of a finished message
\* (PersistDeliveryOutcome, matchingAttemptExists).
FinishedIsFinal ==
    [][\A m \in Jobs : status[m] \in Finished => status'[m] = status[m]]_vars

\* What an Ack relies on is stored before it, and for good.
OutcomesAreDurable == AckOnlyWhenDurable /\ FinishedIsFinal

\* The attempt limit bounds the SMTP operations of a message; only a crash,
\* a panic or a lost lease can cost one more.
OperationsBounded == \A m \in Jobs : sends[m] <= MaxAttempts + faults

\* The peer accepts a message twice only if a crash, a panic or a lost lease
\* came between an acceptance and its record.
DuplicatesNeedFaults == \A m \in Jobs : accepts[m] <= 1 + faults

\* architecture.md, invariant 5: an operation starts from the durable
\* attempts, whoever performed them.
StartsFromDurable ==
    \A w \in Workers : pc[w] = "smtp" => Restores(heap[ref[w]], job[w])

\* In one process, every SMTP operation is one the stored attempts allow,
\* whichever worker performs it and however often the process restarts: it
\* starts from them, and the limit counts them.  Of two processes, one may
\* start from a state it cached before the other's attempts.
OperationsAreSound == TypeOK /\ OperationsBounded /\ StartsFromDurable

\* worker.go, WithOnError: one bad job never stops the pool.
WorkersReturn ==
    \A w \in Workers : pc[w] # "idle" ~> pc[w] = "idle"

\* Every accepted message reaches a terminal status.
EveryMessageFinishes ==
    \A m \in Jobs : status[m] = "queued" ~> status[m] \in Finished
=============================================================================
