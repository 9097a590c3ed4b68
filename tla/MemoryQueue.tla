---------------------------- MODULE MemoryQueue -----------------------------
(***************************************************************************)
(* internal/queue/memory.go: the single-process queue.  Every method body  *)
(* between Lock and Unlock is one action.  What interleaves are goroutines *)
(* blocked in Enqueue and Claim, which park on the notify channel (and, in *)
(* Claim, a timer) after releasing the mutex and re-check when woken.      *)
(*                                                                         *)
(* Closing the notify channel frees exactly the callers that captured it,  *)
(* so the channel is modelled by the callers parked on it: broadcast makes *)
(* every parked caller runnable.                                           *)
(***************************************************************************)
EXTENDS Naturals, FiniteSets

CONSTANTS Jobs, Callers,
          Capacity,   \* bound on active jobs
          MaxTime,    \* bound on now, and on availableAt
          MaxCalls    \* bound on Enqueue and Claim calls

ASSUME MemoryQueueAssumption == MaxTime \in Nat

VARIABLES now,
          entries,      \* the map's keys
          avail,        \* members of the heap
          availableAt, seqOf, isClaimed, token,   \* fields of an entry
          seq, nextToken,                         \* counters
          closed,
          call,         \* call[p]: the blocking call caller p is inside
          calls         \* calls started so far

entryVars == <<entries, avail, availableAt, seqOf, isClaimed, token, seq,
               nextToken, closed>>
memoryVars == <<now, entryVars, call, calls>>

NoCall == [op |-> "none"]
EnqueueCalls == [op : {"enqueue"}, job : Jobs, at : 0..MaxTime, parked : BOOLEAN]
\* timer: the time a parked Claim's timer fires, MaxTime + 1 for no timer.
ClaimCalls == [op : {"claim"}, parked : BOOLEAN, timer : 0..(MaxTime + 1)]
NoTimer == MaxTime + 1

MemoryTypeOK ==
    /\ now \in Nat /\ seq \in Nat /\ nextToken \in Nat /\ calls \in Nat
    /\ avail \subseteq entries /\ entries \subseteq Jobs
    /\ availableAt \in [Jobs -> 0..MaxTime]
    /\ seqOf \in [Jobs -> Nat]
    /\ isClaimed \in [Jobs -> BOOLEAN]
    /\ token \in [Jobs -> Nat]
    /\ closed \in BOOLEAN
    /\ call \in [Callers -> {NoCall} \cup EnqueueCalls \cup ClaimCalls]

MemoryInit ==
    /\ now = 0 /\ seq = 0 /\ nextToken = 0 /\ calls = 0
    /\ entries = {} /\ avail = {}
    /\ availableAt = [j \in Jobs |-> 0]
    /\ seqOf = [j \in Jobs |-> 0]
    /\ isClaimed = [j \in Jobs |-> FALSE]
    /\ token = [j \in Jobs |-> 0]
    /\ closed = FALSE
    /\ call = [p \in Callers |-> NoCall]

-----------------------------------------------------------------------------
Tick ==
    /\ now < MaxTime
    /\ now' = now + 1
    /\ UNCHANGED <<entryVars, call, calls>>

Start(p, c) ==
    /\ call[p] = NoCall /\ calls < MaxCalls
    /\ calls' = calls + 1
    /\ call' = [call EXCEPT ![p] = c]
    /\ UNCHANGED <<now, entryVars>>

Parked(p) == call[p] # NoCall /\ call[p].parked
Runnable(p, op) == call[p].op = op /\ ~call[p].parked

\* Mutant: only one waiter is woken, as with Cond.Signal.
broadcastLocked_One(f) ==
    IF \E p \in Callers : f[p] # NoCall /\ f[p].parked
    THEN LET q == CHOOSE p \in Callers : f[p] # NoCall /\ f[p].parked
         IN  [f EXCEPT ![q].parked = FALSE]
    ELSE f

\* broadcastLocked: every caller parked on notify re-checks its condition.
broadcastLocked(f) ==
    [p \in Callers |-> IF f[p] # NoCall THEN [f[p] EXCEPT !.parked = FALSE]
                                        ELSE NoCall]

Returned(p) == [call EXCEPT ![p] = NoCall]
Park(p) == [call EXCEPT ![p].parked = TRUE]

\* A zero AvailableAt defaults to the enqueue time.
EffectiveAt(at) == IF at = 0 THEN now ELSE at

\* One pass of Enqueue's loop under the mutex.
Enqueue(p) ==
    /\ Runnable(p, "enqueue")
    /\ LET j == call[p].job IN
       \/ /\ closed \/ j \in entries
          /\ call' = Returned(p)
          /\ UNCHANGED <<now, entryVars, calls>>
       \/ /\ ~closed /\ j \notin entries
          /\ Cardinality(entries) < Capacity
          /\ seq' = seq + 1
          /\ seqOf' = [seqOf EXCEPT ![j] = seq + 1]
          /\ availableAt' = [availableAt EXCEPT ![j] = EffectiveAt(call[p].at)]
          /\ isClaimed' = [isClaimed EXCEPT ![j] = FALSE]
          /\ token' = [token EXCEPT ![j] = 0]
          /\ entries' = entries \cup {j}
          /\ avail' = avail \cup {j}
          /\ call' = broadcastLocked(Returned(p))
          /\ UNCHANGED <<now, nextToken, closed, calls>>
       \/ /\ ~closed /\ j \notin entries
          /\ Cardinality(entries) >= Capacity
          /\ call' = Park(p)
          /\ UNCHANGED <<now, entryVars, calls>>

\* entryHeap.Less
Less(i, j) ==
    \/ availableAt[i] < availableAt[j]
    \/ availableAt[i] = availableAt[j] /\ seqOf[i] < seqOf[j]

IsTop(j) == j \in avail /\ \A k \in avail \ {j} : Less(j, k)

\* One pass of Claim's loop under the mutex.
Claim(p) ==
    /\ Runnable(p, "claim")
    /\ \/ /\ closed
          /\ call' = Returned(p)
          /\ UNCHANGED <<now, entryVars, calls>>
       \/ /\ ~closed
          /\ \E j \in avail :
                /\ IsTop(j)
                /\ IF availableAt[j] <= now
                   THEN /\ avail' = avail \ {j}
                        /\ nextToken' = nextToken + 1
                        /\ isClaimed' = [isClaimed EXCEPT ![j] = TRUE]
                        /\ token' = [token EXCEPT ![j] = nextToken + 1]
                        /\ call' = Returned(p)
                   ELSE /\ call' = [call EXCEPT ![p].parked = TRUE,
                                                ![p].timer = availableAt[j]]
                        /\ UNCHANGED <<avail, nextToken, isClaimed, token>>
          /\ UNCHANGED <<now, entries, availableAt, seqOf, seq, closed, calls>>
       \/ /\ ~closed /\ avail = {}
          /\ call' = [call EXCEPT ![p].parked = TRUE, ![p].timer = NoTimer]
          /\ UNCHANGED <<now, entryVars, calls>>

\* A parked Claim's timer fires.
TimerFires(p) ==
    /\ Parked(p) /\ call[p].op = "claim" /\ call[p].timer <= now
    /\ call' = [call EXCEPT ![p].parked = FALSE]
    /\ UNCHANGED <<now, entryVars, calls>>

\* The context of a parked caller is cancelled.
Cancel(p) ==
    /\ Parked(p)
    /\ call' = Returned(p)
    /\ UNCHANGED <<now, entryVars, calls>>

-----------------------------------------------------------------------------
(* Ack, Renew and Release never block.  Renew only validates: no step.     *)

Owns(j, t) == j \in entries /\ isClaimed[j] /\ token[j] = t

\* Mutant: the freed slot is not announced.
Ack_Silent(j, t) ==
    /\ Owns(j, t)
    /\ entries' = entries \ {j}
    /\ UNCHANGED <<now, avail, availableAt, seqOf, isClaimed, token, seq,
                   nextToken, closed, call, calls>>

Ack(j, t) ==
    /\ Owns(j, t)
    /\ entries' = entries \ {j}
    /\ call' = broadcastLocked(call)
    /\ UNCHANGED <<now, avail, availableAt, seqOf, isClaimed, token, seq,
                   nextToken, closed, calls>>

\* Mutant: the entry goes back to the heap still marked as claimed.
Release_KeepsFlag(j, t, at) ==
    /\ Owns(j, t)
    /\ availableAt' = [availableAt EXCEPT ![j] = at]
    /\ seq' = seq + 1
    /\ seqOf' = [seqOf EXCEPT ![j] = seq + 1]
    /\ avail' = avail \cup {j}
    /\ call' = broadcastLocked(call)
    /\ UNCHANGED <<now, entries, isClaimed, token, nextToken, closed, calls>>

Release(j, t, at) ==
    /\ Owns(j, t)
    /\ isClaimed' = [isClaimed EXCEPT ![j] = FALSE]
    /\ availableAt' = [availableAt EXCEPT ![j] = at]
    /\ seq' = seq + 1
    /\ seqOf' = [seqOf EXCEPT ![j] = seq + 1]
    /\ avail' = avail \cup {j}
    /\ call' = broadcastLocked(call)
    /\ UNCHANGED <<now, entries, token, nextToken, closed, calls>>

\* Mutant: waiters are not told that the queue closed.
Close_Silent ==
    /\ ~closed
    /\ closed' = TRUE
    /\ UNCHANGED <<now, entries, avail, availableAt, seqOf, isClaimed, token,
                   seq, nextToken, call, calls>>

Close ==
    /\ ~closed
    /\ closed' = TRUE
    /\ call' = broadcastLocked(call)
    /\ UNCHANGED <<now, entries, avail, availableAt, seqOf, isClaimed, token,
                   seq, nextToken, calls>>

MemoryNext ==
    \/ Tick
    \/ Close
    \/ \E p \in Callers :
        \/ \E j \in Jobs, at \in 0..MaxTime :
              Start(p, [op |-> "enqueue", job |-> j, at |-> at, parked |-> FALSE])
        \/ Start(p, [op |-> "claim", parked |-> FALSE, timer |-> NoTimer])
        \/ Enqueue(p)
        \/ Claim(p)
        \/ TimerFires(p)
        \/ Cancel(p)
    \/ \E j \in Jobs, t \in 1..nextToken :
        \/ Ack(j, t)
        \/ \E at \in 0..MaxTime : Release(j, t, at)

MemorySpec == MemoryInit /\ [][MemoryNext]_memoryVars

\* A goroutine that can run does, and an armed timer fires.
Fairness ==
    \A p \in Callers : WF_memoryVars(Enqueue(p)) /\ WF_memoryVars(Claim(p))
                       /\ WF_memoryVars(TimerFires(p))

MemoryLiveSpec == MemorySpec /\ Fairness

-----------------------------------------------------------------------------
(* Properties.                                                             *)

\* The wake-up rule.  A caller sleeps only while what it waits for has not
\* happened: a parked Enqueue faces a full queue that lacks its job, a parked
\* Claim finds nothing it would not be woken for in time, and nobody sleeps
\* on a closed queue.  Claim itself never broadcasts, so this needs that
\* taking a job can only make waiting more justified.
NoLostWakeup ==
    \A p \in Callers : Parked(p) =>
        /\ ~closed
        /\ call[p].op = "enqueue" =>
              call[p].job \notin entries /\ Cardinality(entries) >= Capacity
        /\ call[p].op = "claim" =>
              \A j \in avail : call[p].timer <= availableAt[j]

DueJob == \E j \in avail : availableAt[j] <= now

\* No caller sleeps for ever.  Close ends every blocked call (Claim and
\* Enqueue return ErrQueueClosed), and while a job is due a caller inside
\* Claim returns, or others have taken every due job.
BlockedCallsEnd ==
    \A p \in Callers :
        /\ (closed /\ call[p] # NoCall) ~> (call[p] = NoCall)
        /\ (DueJob /\ call[p].op = "claim") ~> (~DueJob \/ call[p].op # "claim")

Contract == INSTANCE JobQueue
    WITH active <- entries,
         deferred <- {j \in avail : availableAt[j] > now},
         owner <- [j \in Jobs |-> IF j \in entries /\ isClaimed[j]
                                  THEN token[j] ELSE 0],
         issued <- nextToken

\* The in-memory queue keeps the contract of queue.go, without leases.
ImplementsContract == Contract!QueueSpec
=============================================================================
