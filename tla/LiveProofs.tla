----------------------------- MODULE LiveProofs ------------------------------
(***************************************************************************)
(* Proofs about the modules whose liveness MCLive checks.  Idempotency, for *)
(* every set of requests and payloads: a key makes one message and tells    *)
(* the truth about it.  MemoryQueue, for any capacity and any number of     *)
(* jobs and callers: no wake-up is lost, and the in-memory queue implements *)
(* the contract of queue.go.                                                *)
(***************************************************************************)
EXTENDS Idempotency, MemoryQueue, TLAPS

-----------------------------------------------------------------------------
(* Idempotency keys.                                                        *)

(* Claims are numbered from 1, and no two requests hold the same number.    *)
ClaimNumbers ==
  /\ row.st = "in_progress" => row.at # 0
  /\ \A r \in Requests : at[r] <= claims
  /\ \A r \in Requests : pc[r] \in Owners => at[r] # 0
  /\ \A r, q \in Requests : at[r] # 0 /\ at[r] = at[q] => r = q

(* The message of the current window is the one the completed row names.    *)
WindowOwner ==
  /\ window # 0
  /\ \A r \in Requests : made[r] <= window
  /\ \A r \in Requests : made[r] = window => row.st = "completed" /\ row.res = r

(* A request about to insert has written its file.                          *)
FileFirst == \A r \in Requests : pc[r] = "insert" => r \in files

IInv == /\ TypeOK /\ ClaimNumbers /\ WindowOwner /\ FileFirst
        /\ OneMessagePerKey /\ CompletedKeyIsTrue /\ AcceptedIsDurable

(* An error is no message, and every request has a payload.                 *)
LEMMA Values ==
  /\ \A r \in Requests : Payload[r] \in Payloads
  /\ \A a \in Errors : a \notin Requests
  /\ {"none", "rejected", "conflict", "busy", "error", "lost"} \subseteq Errors
  BY IdempotencyAssumption DEF Errors

(* Init establishes the invariant.                                          *)
LEMMA InitEstablishes == Init => IInv
<1> SUFFICES ASSUME Init PROVE IInv OBVIOUS
<1> USE Values DEF Init, NoRow
<1>1. TypeOK BY DEF TypeOK, Owners
<1>2. ClaimNumbers BY DEF ClaimNumbers, Owners
<1>3. WindowOwner BY DEF WindowOwner
<1>4. FileFirst BY DEF FileFirst
<1>5. OneMessagePerKey BY DEF OneMessagePerKey
<1>6. CompletedKeyIsTrue BY DEF CompletedKeyIsTrue
<1>7. AcceptedIsDurable BY DEF AcceptedIsDurable
<1> QED BY <1>1, <1>2, <1>3, <1>4, <1>5, <1>6, <1>7 DEF IInv

(* A step that only moves one request along or answers it without naming a  *)
(* message keeps the invariant.                                             *)
LEMMA QuietStep ==
  ASSUME IInv, NEW r \in Requests, NEW p \in {"claim", "reclaim", "look", "poll", "save", "replay"},
         p = "save" => pc[r] = "admit",
         Goto(r, p), UNCHANGED <<Store, at>>, faults' \in Nat
  PROVE  IInv'
  BY DEF IInv, TypeOK, ClaimNumbers, WindowOwner, FileFirst, OneMessagePerKey,
         CompletedKeyIsTrue, AcceptedIsDurable, Owners, Goto, Store

(* An answer that is an error, or a message whose row exists, keeps it.     *)
LEMMA AnswerStep ==
  ASSUME IInv, NEW r \in Requests, NEW a \in Requests \cup Errors,
         a \in Requests => made[a] # 0,
         Answer(r, a), UNCHANGED <<Store, at>>, faults' \in Nat
  PROVE  IInv'
  BY Values DEF IInv, TypeOK, ClaimNumbers, WindowOwner, FileFirst, OneMessagePerKey,
         CompletedKeyIsTrue, AcceptedIsDurable, Owners, Answer, Store

(* The message a completed key names has its row.                           *)
LEMMA NamedIsMade ==
  ASSUME IInv, row.st = "completed"
  PROVE  row.res \in Requests /\ made[row.res] # 0
  BY DEF IInv, TypeOK, WindowOwner, CompletedKeyIsTrue

(* An error as the answer keeps the invariant.                              *)
LEMMA ErrorStep ==
  ASSUME IInv, NEW r \in Requests, NEW a \in Errors,
         Answer(r, a), UNCHANGED <<Store, at>>, faults' \in Nat
  PROVE  IInv'
  BY Values, AnswerStep

(* So does the replay of a completed key.                                   *)
LEMMA ReplayStep ==
  ASSUME IInv, NEW r \in Requests, row.st = "completed",
         Answer(r, row.res), UNCHANGED <<Store, at>>, faults' \in Nat
  PROVE  IInv'
  BY NamedIsMade, AnswerStep

(* A claim of a free or of a stale key keeps the invariant.                 *)
LEMMA TakeStep ==
  ASSUME IInv, NEW r \in Requests, row.st # "completed", TakeClaim(r)
  PROVE  IInv'
<1> USE Values DEF TakeClaim, Claimed, Goto
<1>1. TypeOK' BY DEF IInv, TypeOK, Owners
<1>2. ClaimNumbers' BY DEF IInv, TypeOK, ClaimNumbers, Owners
<1>3. WindowOwner' BY DEF IInv, TypeOK, WindowOwner
<1>4. FileFirst' BY DEF IInv, TypeOK, FileFirst
<1>5. OneMessagePerKey' BY DEF IInv, OneMessagePerKey
<1>6. CompletedKeyIsTrue' BY DEF CompletedKeyIsTrue
<1>7. AcceptedIsDurable' BY DEF IInv, AcceptedIsDurable
<1> QED BY <1>1, <1>2, <1>3, <1>4, <1>5, <1>6, <1>7 DEF IInv

(* The commit of InsertMessage, whatever answer its handler gives.          *)
LEMMA CommitStep ==
  ASSUME IInv, NEW r \in Requests, NEW a \in {r, "error", "lost"},
         pc[r] = "insert", Commit(r), Answer(r, a),
         UNCHANGED <<claims, at, files, window>>, faults' \in Nat
  PROVE  IInv'
<1> USE Values DEF Commit, Completes, Answer
<1>1. TypeOK' BY DEF IInv, TypeOK, Owners
<1>2. ClaimNumbers' BY DEF IInv, TypeOK, ClaimNumbers, Owners
<1>3. WindowOwner' BY DEF IInv, TypeOK, WindowOwner
<1>4. FileFirst' BY DEF IInv, TypeOK, FileFirst
<1>5. OneMessagePerKey' BY DEF IInv, TypeOK, OneMessagePerKey, WindowOwner
<1>6. CompletedKeyIsTrue' BY DEF IInv, TypeOK, CompletedKeyIsTrue
<1>7. AcceptedIsDurable' BY DEF IInv, TypeOK, AcceptedIsDurable, FileFirst, WindowOwner
<1> QED BY <1>1, <1>2, <1>3, <1>4, <1>5, <1>6, <1>7 DEF IInv

(* Writing the file, with the request going on or ending in an error.       *)
LEMMA FileStep ==
  ASSUME IInv, NEW r \in Requests, pc[r] = "save",
         files' = files \cup {r},
         Goto(r, "insert") \/ Answer(r, "error"),
         UNCHANGED <<row, claims, at, made, window>>, faults' \in Nat
  PROVE  IInv'
<1> USE Values DEF Goto, Answer
<1>1. TypeOK' BY DEF IInv, TypeOK, Owners
<1>2. ClaimNumbers' BY DEF IInv, TypeOK, ClaimNumbers, Owners
<1>3. WindowOwner' BY DEF IInv, WindowOwner
<1>4. FileFirst' BY DEF IInv, TypeOK, FileFirst
<1>5. OneMessagePerKey' BY DEF IInv, OneMessagePerKey
<1>6. CompletedKeyIsTrue' BY DEF IInv, CompletedKeyIsTrue
<1>7. AcceptedIsDurable' BY DEF IInv, TypeOK, AcceptedIsDurable
<1> QED BY <1>1, <1>2, <1>3, <1>4, <1>5, <1>6, <1>7 DEF IInv

(* A refusal deletes at most a claim in progress.                           *)
LEMMA RefuseStep ==
  ASSUME IInv, NEW r \in Requests, Refuse(r)
  PROVE  IInv'
<1> USE Values DEF Refuse, OwnClaim, Answer, NoRow
<1>1. TypeOK' BY DEF IInv, TypeOK, Owners
<1>2. ClaimNumbers' BY DEF IInv, TypeOK, ClaimNumbers, Owners
<1>3. WindowOwner' BY DEF IInv, TypeOK, WindowOwner
<1>4. FileFirst' BY DEF IInv, TypeOK, FileFirst
<1>5. OneMessagePerKey' BY DEF IInv, OneMessagePerKey
<1>6. CompletedKeyIsTrue' BY DEF IInv, CompletedKeyIsTrue
<1>7. AcceptedIsDurable' BY DEF IInv, TypeOK, AcceptedIsDurable
<1> QED BY <1>1, <1>2, <1>3, <1>4, <1>5, <1>6, <1>7 DEF IInv

(* Every step of a request keeps the invariant.                             *)
LEMMA RequestStep ==
  ASSUME IInv, NEW r \in Requests, Step(r)
  PROVE  IInv'
<1>0. /\ faults \in Nat
      /\ {"none", "rejected", "conflict", "busy", "error", "lost"} \subseteq Errors
  BY Values DEF IInv, TypeOK
<1>1. CASE Begin(r)
  BY <1>0, <1>1, QuietStep, ErrorStep, ReplayStep DEF Begin, Replayable
<1>2. CASE ClaimInsert(r)
  <2>1. CASE row.st = "none" BY <1>2, <2>1, TakeStep DEF ClaimInsert
  <2>2. CASE row.st # "none" BY <1>0, <1>2, <2>2, QuietStep DEF ClaimInsert
  <2> QED BY <2>1, <2>2
<1>3. CASE Reclaim(r)
  <2>1. CASE MayReclaim BY <1>3, <2>1, TakeStep DEF Reclaim, MayReclaim
  <2>2. CASE ~MayReclaim BY <1>0, <1>3, <2>2, QuietStep DEF Reclaim
  <2> QED BY <2>1, <2>2
<1>4. CASE Look(r)
  BY <1>0, <1>4, QuietStep, ErrorStep, ReplayStep DEF Look
<1>5. CASE Poll(r)
  BY <1>0, <1>5, ErrorStep, ReplayStep DEF Poll
<1>6. CASE PollTimeout(r)
  BY <1>0, <1>6, ErrorStep DEF PollTimeout
<1>7. CASE Admit(r)
  BY <1>0, <1>7, QuietStep DEF Admit
<1>8. CASE Refuse(r)
  BY <1>8, RefuseStep
<1>9. CASE Save(r)
  BY <1>0, <1>9, FileStep DEF Save
<1>10. CASE InsertMessage(r)
  <2>1. CASE Commit(r) /\ Answer(r, r)
    BY <1>0, <1>10, <2>1, CommitStep DEF InsertMessage
  <2>2. CASE Goto(r, "replay") /\ UNCHANGED <<row, made>>
    BY <1>0, <1>10, <2>2, QuietStep DEF InsertMessage, Store
  <2> QED BY <1>10, <2>1, <2>2 DEF InsertMessage
<1>11. CASE ReplayIfCompleted(r)
  BY <1>0, <1>11, ErrorStep, ReplayStep DEF ReplayIfCompleted, Replayable
<1> QED BY <1>1, <1>2, <1>3, <1>4, <1>5, <1>6, <1>7, <1>8, <1>9, <1>10, <1>11 DEF Step

(* Every fault keeps it.                                                    *)
LEMMA FaultKeeps ==
  ASSUME IInv, NEW r \in Requests, FaultStep(r)
  PROVE  IInv'
<1>0. faults \in Nat BY DEF IInv, TypeOK
<1>1. CASE Fails(r)
  BY <1>0, <1>1, Values, ErrorStep DEF Fails, Fault
<1>2. CASE SaveFails(r)
  BY <1>0, <1>2, FileStep DEF SaveFails, Fault
<1>3. CASE InsertReplyLost(r)
  BY <1>0, <1>3, CommitStep DEF InsertReplyLost, Fault
<1> QED BY <1>1, <1>2, <1>3 DEF FaultStep

(* Time and the cleanup keep it.                                            *)
LEMMA TimeKeeps ==
  ASSUME IInv, GoesStale \/ Cleanup
  PROVE  IInv'
<1>1. CASE GoesStale
  BY <1>1 DEF GoesStale, IInv, TypeOK, ClaimNumbers, WindowOwner, FileFirst,
     OneMessagePerKey, CompletedKeyIsTrue, AcceptedIsDurable
<1>2. CASE Cleanup
  <2> USE <1>2 DEF Cleanup, NoRow
  <2>1. TypeOK' BY DEF IInv, TypeOK
  <2>2. ClaimNumbers' BY DEF IInv, ClaimNumbers
  <2>3. WindowOwner' BY DEF IInv, TypeOK, WindowOwner
  <2>4. FileFirst' BY DEF IInv, FileFirst
  <2>5. OneMessagePerKey' BY DEF IInv, OneMessagePerKey
  <2>6. CompletedKeyIsTrue' BY DEF CompletedKeyIsTrue
  <2>7. AcceptedIsDurable' BY DEF IInv, AcceptedIsDurable
  <2> QED BY <2>1, <2>2, <2>3, <2>4, <2>5, <2>6, <2>7 DEF IInv
<1> QED BY <1>1, <1>2

(* The inductive invariant holds in every reachable state.                  *)
THEOREM InvariantHolds == Spec => []IInv
<1>1. IInv /\ UNCHANGED vars => IInv'
  BY DEF vars, IInv, TypeOK, ClaimNumbers, WindowOwner, FileFirst, OneMessagePerKey,
         CompletedKeyIsTrue, AcceptedIsDurable
<1>2. IInv /\ [Next]_vars => IInv'
  BY <1>1, RequestStep, FaultKeeps, TimeKeeps DEF Next
<1> QED BY InitEstablishes, <1>2, PTL DEF Spec

(* The table, the files and the answers keep their types.                   *)
THEOREM KeyTypeCorrect == Spec => []TypeOK
  BY InvariantHolds, PTL DEF IInv

(* One retention window of a key creates at most one message, for any       *)
(* number of racing, stalled and retried requests.                          *)
THEOREM AtMostOneMessage == Spec => []OneMessagePerKey
  BY InvariantHolds, PTL DEF IInv

(* A completed key names a committed message of the payload it was claimed  *)
(* with last.                                                               *)
THEOREM CompletedKeyTellsTruth == Spec => []CompletedKeyIsTrue
  BY InvariantHolds, PTL DEF IInv

(* Every accepted message has its row and its file.                         *)
THEOREM AcceptedMessagesAreDurable == Spec => []AcceptedIsDurable
  BY InvariantHolds, PTL DEF IInv

(* What the key promises, together: one message per window, a truthful      *)
(* completed row, and durable answers.                                      *)
THEOREM IdempotencyKeysAreSound == Spec => []KeysAreSound
  BY AtMostOneMessage, CompletedKeyTellsTruth, AcceptedMessagesAreDurable, PTL DEF KeysAreSound

(* Nothing takes away a claim that is not stale but its own request.        *)
THEOREM FreshClaimsAreSafe == Spec => FreshClaimIsSafe
<1> DEFINE Safe == \A r \in Requests :
      (row.st = "in_progress" /\ row.age = "fresh" /\ row.at = at[r] /\ pc[r] \in Owners
         /\ row'.at # row.at) => pc'[r] # pc[r]
<1>1. IInv /\ [Next]_vars => [Safe]_vars
  <2> SUFFICES ASSUME IInv, Next, NEW r \in Requests,
                      row.st = "in_progress", row.age = "fresh", row.at = at[r], pc[r] \in Owners,
                      row'.at # row.at
               PROVE  pc'[r] # pc[r]
    OBVIOUS
  <2>1. CASE GoesStale BY <2>1 DEF GoesStale, IInv, TypeOK
  <2>2. CASE Cleanup BY <2>2 DEF Cleanup
  <2>3. ASSUME NEW q \in Requests, Step(q) PROVE pc'[r] # pc[r]
    <3>1. CASE Refuse(q)
      BY <3>1 DEF Refuse, OwnClaim, Answer, IInv, TypeOK, ClaimNumbers, Owners
    <3>2. CASE ClaimInsert(q) BY <3>2 DEF ClaimInsert, Store
    <3>3. CASE Reclaim(q) BY <3>3 DEF Reclaim, MayReclaim, Store
    <3>4. CASE InsertMessage(q) BY <3>4 DEF InsertMessage, Commit, IInv, TypeOK
    <3>5. CASE Begin(q) \/ Look(q) \/ Poll(q) \/ PollTimeout(q) \/ Admit(q) \/ Save(q)
               \/ ReplayIfCompleted(q)
      BY <3>5 DEF Begin, Look, Poll, PollTimeout, Admit, Save, ReplayIfCompleted, Store
    <3> QED BY <2>3, <3>1, <3>2, <3>3, <3>4, <3>5 DEF Step
  <2>4. ASSUME NEW q \in Requests, FaultStep(q) PROVE pc'[r] # pc[r]
    BY <2>4 DEF FaultStep, Fails, SaveFails, InsertReplyLost, Commit, Store, IInv, TypeOK
  <2> QED BY <2>1, <2>2, <2>3, <2>4 DEF Next
<1>2. Spec => [][Safe]_vars BY InvariantHolds, <1>1, PTL DEF Spec
<1> QED BY <1>2 DEF FreshClaimIsSafe

-----------------------------------------------------------------------------
(* The in-memory queue.                                                     *)

(* The heap holds exactly the entries that no claim owns, and a claim's     *)
(* token was handed out.                                                   *)
HeapMatchesMap ==
  /\ avail = {j \in entries : ~isClaimed[j]}
  /\ \A j \in entries : isClaimed[j] => token[j] > 0

Asleep(c) == c # NoCall /\ c.parked

(* What a sleeping caller waits for has not happened. *)
Justified(c) ==
  Asleep(c) =>
    /\ ~closed
    /\ c.op = "enqueue" => c.job \notin entries /\ Cardinality(entries) >= Capacity
    /\ c.op = "claim" => \A j \in avail : c.timer <= availableAt[j]

Calls == {NoCall} \cup EnqueueCalls \cup ClaimCalls

EntryTypes ==
  /\ now \in 0..MaxTime /\ seq \in Nat /\ nextToken \in Nat /\ calls \in Nat
  /\ entries \subseteq Jobs /\ closed \in BOOLEAN
  /\ availableAt \in [Jobs -> 0..MaxTime] /\ seqOf \in [Jobs -> Nat]
  /\ isClaimed \in [Jobs -> BOOLEAN] /\ token \in [Jobs -> Nat]

CallsOK == call \in [Callers -> Calls] /\ \A p \in Callers : Justified(call[p])

QueueInv == EntryTypes /\ HeapMatchesMap /\ CallsOK

-----------------------------------------------------------------------------
(* A caller that is awake needs no justification.                           *)
LEMMA Awake == ASSUME NEW c, ~Asleep(c) PROVE Justified(c)
  BY DEF Justified

(* A caller that is not in a call is awake.                                 *)
LEMMA NoCallIsOne == NoCall \in Calls /\ ~Asleep(NoCall)
  BY DEF Calls, Asleep

(* The invariant holds of an empty open queue.                              *)
LEMMA QueueInit == MemoryInit => QueueInv
  <1> SUFFICES ASSUME MemoryInit PROVE QueueInv
    OBVIOUS
  <1>1. EntryTypes
    <2>1. isClaimed \in [Jobs -> BOOLEAN] /\ closed \in BOOLEAN
      BY DEF MemoryInit
    <2>2. QED
      BY MemoryQueueAssumption, <2>1 DEF MemoryInit, EntryTypes
  <1>2. HeapMatchesMap
    BY DEF MemoryInit, HeapMatchesMap
  <1>3. CallsOK
    BY NoCallIsOne, Awake DEF MemoryInit, CallsOK
  <1>4. QED
    BY <1>1, <1>2, <1>3 DEF QueueInv

(* The kinds of call, by their operation. *)
LEMMA KindOfCall ==
  ASSUME NEW c \in Calls
  PROVE  (c.op = "enqueue" => c \in EnqueueCalls) /\ (c.op = "claim" => c \in ClaimCalls)
         /\ (Asleep(c) => c.op \in {"enqueue", "claim"})
  BY DEF Calls, NoCall, EnqueueCalls, ClaimCalls, Asleep

(* A broadcast leaves nobody asleep. *)
LEMMA BroadcastWakes ==
  ASSUME NEW f \in [Callers -> Calls]
  PROVE  broadcastLocked(f) \in [Callers -> Calls] /\ \A p \in Callers : ~Asleep(broadcastLocked(f)[p])
  <1>1. ASSUME NEW p \in Callers, f[p] # NoCall
        PROVE  [f[p] EXCEPT !.parked = FALSE] \in Calls /\ ~Asleep([f[p] EXCEPT !.parked = FALSE])
    <2>1. CASE f[p] \in EnqueueCalls
      <3>1. [f[p] EXCEPT !.parked = FALSE] \in EnqueueCalls
        BY <2>1 DEF EnqueueCalls
      <3>2. [f[p] EXCEPT !.parked = FALSE].parked = FALSE
        BY <2>1 DEF EnqueueCalls
      <3>3. QED
        BY <3>1, <3>2 DEF Calls, Asleep
    <2>2. CASE f[p] \in ClaimCalls
      <3>1. [f[p] EXCEPT !.parked = FALSE] \in ClaimCalls
        BY <2>2 DEF ClaimCalls
      <3>2. [f[p] EXCEPT !.parked = FALSE].parked = FALSE
        BY <2>2 DEF ClaimCalls
      <3>3. QED
        BY <3>1, <3>2 DEF Calls, Asleep
    <2>3. QED
      BY <1>1, <2>1, <2>2 DEF Calls
  <1>2. QED
    BY <1>1, NoCallIsOne DEF broadcastLocked

(* Closing the notify channel wakes everybody.                              *)
LEMMA BroadcastKeeps ==
  ASSUME NEW f \in [Callers -> Calls], call' = broadcastLocked(f) PROVE CallsOK'
  <1>1. call' \in [Callers -> Calls] /\ \A p \in Callers : ~Asleep(call'[p])
    BY BroadcastWakes
  <1>2. \A p \in Callers : Justified(call[p])'
    BY <1>1 DEF Justified, Asleep
  <1>3. QED
    BY <1>1, <1>2 DEF CallsOK

(* A step of the caller p that broadcasts nothing: nothing is added, and     *)
(* what p goes to sleep for has not happened.                               *)
LEMMA CallerMoves ==
  ASSUME QueueInv, NEW p \in Callers, NEW c \in Calls, call' = [call EXCEPT ![p] = c], Justified(c)',
         UNCHANGED <<entries, availableAt, closed>>, avail' \subseteq avail
  PROVE  CallsOK'
  <1>1. call' \in [Callers -> Calls] /\ \A q \in Callers : call'[q] = IF q = p THEN c ELSE call[q]
    BY DEF QueueInv, CallsOK
  <1>2. ASSUME NEW q \in Callers PROVE Justified(call[q])'
    <2>1. CASE q = p
      BY <1>1, <2>1 DEF Justified, Asleep
    <2>2. CASE q # p
      BY <1>1, <2>2 DEF QueueInv, CallsOK, Justified, Asleep
    <2>3. QED
      BY <2>1, <2>2
  <1>3. QED
    BY <1>1, <1>2 DEF CallsOK

(* A caller that returns without changing the queue justifies the others no *)
(* less.                                                                    *)
LEMMA CallerReturns ==
  ASSUME QueueInv, NEW p \in Callers, call' = Returned(p), UNCHANGED <<entries, availableAt, closed>>,
         avail' \subseteq avail
  PROVE  CallsOK'
  <1>1. PICK c : c = NoCall
    OBVIOUS
  <1>2. c \in Calls /\ call' = [call EXCEPT ![p] = c] /\ ~Asleep(c)
    BY <1>1, NoCallIsOne DEF Returned
  <1>3. Justified(c)'
    BY <1>2 DEF Justified, Asleep
  <1>4. QED
    BY <1>2, <1>3, CallerMoves

(* The entries stay in order when nobody touches them.                      *)
LEMMA SameEntries ==
  ASSUME QueueInv, UNCHANGED entryVars, now' \in 0..MaxTime, calls' \in Nat PROVE EntryTypes' /\ HeapMatchesMap'
  BY DEF QueueInv, EntryTypes, HeapMatchesMap, entryVars

-----------------------------------------------------------------------------
(* The actions. *)

(* A call that begins is awake.                                             *)
LEMMA StartKeeps ==
  ASSUME QueueInv, NEW p \in Callers, NEW c \in Calls, ~Asleep(c), Start(p, c) PROVE QueueInv'
  <1>1. call' = [call EXCEPT ![p] = c] /\ UNCHANGED <<now, entryVars>> /\ calls' = calls + 1
    BY DEF Start
  <1>2. CallsOK'
    BY <1>1, CallerMoves DEF Justified, Asleep, entryVars
  <1>3. QED
    BY <1>1, <1>2, SameEntries DEF QueueInv, EntryTypes

(* Adding a job keeps map and heap together and wakes everybody.            *)
LEMMA EnqueueKeeps ==
  ASSUME QueueInv, NEW p \in Callers, Enqueue(p) PROVE QueueInv'
  <1>1. PICK j : j = call[p].job
    OBVIOUS
  <1>2. call[p] \in EnqueueCalls
    BY KindOfCall DEF Enqueue, Runnable, QueueInv, CallsOK
  <1>3. j \in Jobs /\ call[p].at \in 0..MaxTime
    BY <1>1, <1>2 DEF EnqueueCalls
  <1>4. CASE call' = Returned(p) /\ UNCHANGED <<now, entryVars, calls>>
    BY <1>4, CallerReturns, SameEntries DEF entryVars, QueueInv, EntryTypes
  <1>5. CASE /\ ~closed /\ j \notin entries /\ Cardinality(entries) >= Capacity /\ call' = Park(p)
             /\ UNCHANGED <<now, entryVars, calls>>
    <2>1. PICK c : c = [call[p] EXCEPT !.parked = TRUE]
      OBVIOUS
    <2>2. c \in EnqueueCalls /\ c.job = j /\ c.op = "enqueue"
      BY <1>1, <1>2, <2>1 DEF EnqueueCalls
    <2>3. call' = [call EXCEPT ![p] = c]
      BY <1>5, <2>1 DEF Park
    <2>4. UNCHANGED <<entries, avail, availableAt, closed>>
      BY <1>5 DEF entryVars
    <2>5. Justified(c)'
      BY <1>5, <2>2, <2>4 DEF Justified
    <2>6. QED
      BY <1>5, <2>2, <2>3, <2>4, <2>5, CallerMoves, SameEntries DEF QueueInv, EntryTypes, Calls
  <1>6. CASE /\ ~closed /\ j \notin entries
             /\ seq' = seq + 1
             /\ seqOf' = [seqOf EXCEPT ![j] = seq + 1]
             /\ availableAt' = [availableAt EXCEPT ![j] = EffectiveAt(call[p].at)]
             /\ isClaimed' = [isClaimed EXCEPT ![j] = FALSE]
             /\ token' = [token EXCEPT ![j] = 0]
             /\ entries' = entries \cup {j}
             /\ avail' = avail \cup {j}
             /\ call' = broadcastLocked(Returned(p))
             /\ UNCHANGED <<now, nextToken, closed, calls>>
    <2>1. EffectiveAt(call[p].at) \in 0..MaxTime
      BY <1>3 DEF EffectiveAt, QueueInv, EntryTypes
    <2>2. EntryTypes'
      <3>1. isClaimed' \in [Jobs -> BOOLEAN]
        BY <1>6 DEF QueueInv, EntryTypes
      <3>2. QED
        BY <1>3, <1>6, <2>1, <3>1 DEF QueueInv, EntryTypes
    <2>3. HeapMatchesMap'
      BY <1>3, <1>6 DEF QueueInv, EntryTypes, HeapMatchesMap
    <2>4. Returned(p) \in [Callers -> Calls]
      BY NoCallIsOne DEF Returned, QueueInv, CallsOK
    <2>5. CallsOK'
      BY <1>6, <2>4, BroadcastKeeps
    <2>6. QED
      BY <2>2, <2>3, <2>5 DEF QueueInv
  <1>7. QED
    BY <1>1, <1>4, <1>5, <1>6 DEF Enqueue

(* Claiming takes a job off the heap and makes nobody's waiting             *)
(* unjustified.                                                             *)
LEMMA ClaimKeeps ==
  ASSUME QueueInv, NEW p \in Callers, Claim(p) PROVE QueueInv'
  <1>1. call[p] \in ClaimCalls
    BY KindOfCall DEF Claim, Runnable, QueueInv, CallsOK
  <1>2. ASSUME NEW t \in 0..(MaxTime + 1), ~closed, \A j \in avail : t <= availableAt[j],
               call' = [call EXCEPT ![p].parked = TRUE, ![p].timer = t], UNCHANGED <<now, entryVars, calls>>
        PROVE  QueueInv'
    <2>1. PICK c : c = [call[p] EXCEPT !.parked = TRUE, !.timer = t]
      OBVIOUS
    <2>2. c \in ClaimCalls /\ c.timer = t /\ c.op = "claim"
      BY <1>1, <1>2, <2>1 DEF ClaimCalls
    <2>3. call' = [call EXCEPT ![p] = c]
      BY <1>2, <2>1 DEF QueueInv, CallsOK
    <2>4. UNCHANGED <<entries, avail, availableAt, closed>>
      BY <1>2 DEF entryVars
    <2>5. Justified(c)'
      BY <1>2, <2>2, <2>4 DEF Justified
    <2>6. QED
      BY <1>2, <2>2, <2>3, <2>4, <2>5, CallerMoves, SameEntries DEF QueueInv, EntryTypes, Calls
  <1>3. CASE closed /\ call' = Returned(p) /\ UNCHANGED <<now, entryVars, calls>>
    BY <1>3, CallerReturns, SameEntries DEF entryVars, QueueInv, EntryTypes
  <1>4. ASSUME NEW j \in avail, ~closed, IsTop(j), ~(availableAt[j] <= now),
               call' = [call EXCEPT ![p].parked = TRUE, ![p].timer = availableAt[j]],
               UNCHANGED <<now, entryVars, calls>>
        PROVE  QueueInv'
    <2>1. j \in Jobs /\ avail \subseteq Jobs /\ \A k \in Jobs : availableAt[k] \in 0..MaxTime
      BY DEF QueueInv, EntryTypes, HeapMatchesMap
    <2>2. \A k \in avail : availableAt[j] <= availableAt[k]
      BY <1>4, <2>1 DEF IsTop, Less
    <2>3. availableAt[j] \in 0..(MaxTime + 1)
      BY MemoryQueueAssumption, <2>1
    <2>4. QED
      BY <1>2, <1>4, <2>2, <2>3
  <1>5. ASSUME NEW j \in avail, avail' = avail \ {j}, nextToken' = nextToken + 1,
               isClaimed' = [isClaimed EXCEPT ![j] = TRUE], token' = [token EXCEPT ![j] = nextToken + 1],
               call' = Returned(p), UNCHANGED <<now, entries, availableAt, seqOf, seq, closed, calls>>
        PROVE  QueueInv'
    <2>1. j \in Jobs /\ j \in entries
      BY DEF QueueInv, EntryTypes, HeapMatchesMap
    <2>2. EntryTypes'
      <3>1. isClaimed' \in [Jobs -> BOOLEAN]
        BY <1>5 DEF QueueInv, EntryTypes
      <3>2. QED
        BY <1>5, <3>1 DEF QueueInv, EntryTypes
    <2>3. HeapMatchesMap'
      BY <1>5, <2>1 DEF QueueInv, EntryTypes, HeapMatchesMap
    <2>4. CallsOK'
      BY <1>5, CallerReturns
    <2>5. QED
      BY <2>2, <2>3, <2>4 DEF QueueInv
  <1>6. CASE /\ ~closed /\ avail = {}
             /\ call' = [call EXCEPT ![p].parked = TRUE, ![p].timer = NoTimer]
             /\ UNCHANGED <<now, entryVars, calls>>
    <2>1. NoTimer \in 0..(MaxTime + 1) /\ \A j \in avail : NoTimer <= availableAt[j]
      BY MemoryQueueAssumption, <1>6 DEF NoTimer
    <2>2. QED
      BY <1>2, <1>6, <2>1
  <1>7. QED
    BY <1>3, <1>4, <1>5, <1>6 DEF Claim, entryVars

(* Acknowledging and releasing act under the current token and wake         *)
(* everybody.                                                               *)
LEMMA TakeBackKeeps ==
  ASSUME QueueInv, NEW j \in Jobs, NEW t,
         Ack(j, t) \/ \E when \in 0..MaxTime : Release(j, t, when)
  PROVE  QueueInv'
  <1>1. Owns(j, t) /\ call' = broadcastLocked(call)
    BY DEF Ack, Release
  <1>2. CallsOK'
    BY <1>1, BroadcastKeeps DEF QueueInv, CallsOK
  <1>3. CASE Ack(j, t)
    <2>1. EntryTypes' /\ HeapMatchesMap'
      BY <1>3 DEF Ack, Owns, QueueInv, EntryTypes, HeapMatchesMap
    <2>2. QED
      BY <1>2, <2>1 DEF QueueInv
  <1>4. ASSUME NEW when \in 0..MaxTime, Release(j, t, when) PROVE QueueInv'
    <2>1. isClaimed' \in [Jobs -> BOOLEAN]
      BY <1>4 DEF Release, QueueInv, EntryTypes
    <2>2. EntryTypes'
      BY <1>4, <2>1 DEF Release, QueueInv, EntryTypes
    <2>3. HeapMatchesMap'
      BY <1>4 DEF Release, Owns, QueueInv, EntryTypes, HeapMatchesMap
    <2>4. QED
      BY <1>2, <2>2, <2>3 DEF QueueInv
  <1>5. QED
    BY <1>3, <1>4

(* Every step of the queue keeps the invariant.                             *)
LEMMA QueueStep == QueueInv /\ [MemoryNext]_memoryVars => QueueInv'
  <1> SUFFICES ASSUME QueueInv, [MemoryNext]_memoryVars PROVE QueueInv'
    OBVIOUS
  <1>1. CASE UNCHANGED memoryVars
    <2>1. CallsOK'
      BY <1>1 DEF memoryVars, entryVars, QueueInv, CallsOK, Justified
    <2>2. QED
      BY <1>1, <2>1, SameEntries DEF memoryVars, QueueInv, EntryTypes
  <1>2. CASE Tick
    <2>1. now' \in 0..MaxTime
      BY MemoryQueueAssumption, <1>2 DEF Tick, QueueInv, EntryTypes
    <2>2. CallsOK'
      BY <1>2 DEF Tick, entryVars, QueueInv, CallsOK, Justified
    <2>3. QED
      BY <1>2, <2>1, <2>2, SameEntries DEF Tick, QueueInv, EntryTypes
  <1>3. CASE Close
    <2>1. CallsOK'
      BY <1>3, BroadcastKeeps DEF Close, QueueInv, CallsOK
    <2>2. EntryTypes' /\ HeapMatchesMap'
      BY <1>3 DEF Close, QueueInv, EntryTypes, HeapMatchesMap
    <2>3. QED
      BY <2>1, <2>2 DEF QueueInv
  <1>4. ASSUME NEW p \in Callers, NEW j \in Jobs, NEW when \in 0..MaxTime,
               Start(p, [op |-> "enqueue", job |-> j, at |-> when, parked |-> FALSE])
        PROVE  QueueInv'
    <2>1. PICK c : c = [op |-> "enqueue", job |-> j, at |-> when, parked |-> FALSE]
      OBVIOUS
    <2>2. c \in EnqueueCalls /\ c.parked = FALSE
      BY <2>1 DEF EnqueueCalls
    <2>3. c \in Calls /\ ~Asleep(c)
      BY <2>2 DEF Calls, Asleep
    <2>4. QED
      BY <1>4, <2>1, <2>3, StartKeeps
  <1>5. ASSUME NEW p \in Callers, Start(p, [op |-> "claim", parked |-> FALSE, timer |-> NoTimer]) PROVE QueueInv'
    <2>1. PICK c : c = [op |-> "claim", parked |-> FALSE, timer |-> NoTimer]
      OBVIOUS
    <2>2. NoTimer \in 0..(MaxTime + 1)
      BY MemoryQueueAssumption DEF NoTimer
    <2>3. c \in ClaimCalls /\ c.parked = FALSE
      BY <2>1, <2>2 DEF ClaimCalls
    <2>4. c \in Calls /\ ~Asleep(c)
      BY <2>3 DEF Calls, Asleep
    <2>5. QED
      BY <1>5, <2>1, <2>4, StartKeeps
  <1>6. ASSUME NEW p \in Callers, TimerFires(p) PROVE QueueInv'
    <2>1. call[p] \in ClaimCalls
      BY <1>6, KindOfCall DEF TimerFires, QueueInv, CallsOK
    <2>2. PICK c : c = [call[p] EXCEPT !.parked = FALSE]
      OBVIOUS
    <2>3. c \in ClaimCalls /\ c.parked = FALSE
      BY <2>1, <2>2 DEF ClaimCalls
    <2>4. c \in Calls /\ ~Asleep(c) /\ call' = [call EXCEPT ![p] = c]
      BY <1>6, <2>2, <2>3 DEF Calls, Asleep, TimerFires
    <2>5. Justified(c)'
      BY <2>4 DEF Justified, Asleep
    <2>6. QED
      BY <1>6, <2>4, <2>5, CallerMoves, SameEntries DEF TimerFires, QueueInv, EntryTypes, entryVars
  <1>7. ASSUME NEW p \in Callers, Cancel(p) PROVE QueueInv'
    BY <1>7, CallerReturns, SameEntries DEF Cancel, QueueInv, EntryTypes, entryVars
  <1>8. QED
    BY <1>1, <1>2, <1>3, <1>4, <1>5, <1>6, <1>7, EnqueueKeeps, ClaimKeeps, TakeBackKeeps DEF MemoryNext

(* A caller of the in-memory queue sleeps only while what it waits for has   *)
(* not happened: Enqueue, Ack, Release and Close wake everybody, and Claim,  *)
(* which wakes nobody, only makes waiting more justified.                   *)
THEOREM NoWakeupIsLost == MemorySpec => [](MemoryTypeOK /\ NoLostWakeup)
  <1>1. QueueInv => MemoryTypeOK /\ NoLostWakeup
    <2> SUFFICES ASSUME QueueInv PROVE MemoryTypeOK /\ NoLostWakeup
      OBVIOUS
    <2>1. MemoryTypeOK
      BY DEF QueueInv, EntryTypes, HeapMatchesMap, CallsOK, Calls, MemoryTypeOK
    <2>2. NoLostWakeup
      BY DEF QueueInv, CallsOK, Justified, Asleep, NoLostWakeup, Parked
    <2>3. QED
      BY <2>1, <2>2
  <1>2. QED
    BY QueueInit, QueueStep, <1>1, PTL DEF MemorySpec

-----------------------------------------------------------------------------
(* The refinement. *)

Later == {j \in avail : availableAt[j] > now}
OwnerOf == [j \in Jobs |-> IF j \in entries /\ isClaimed[j] THEN token[j] ELSE 0]

(* The contract counts the way FiniteSets does.                             *)
LEMMA SameCardinality == \A S : Contract!Cardinality(S) = Cardinality(S)
  BY DEF Contract!Cardinality, Cardinality

(* A step of the memory queue is a step of the contract or none.            *)
LEMMA ContractStep ==
  ASSUME QueueInv, [MemoryNext]_memoryVars
  PROVE  Contract!QueueNext \/ UNCHANGED Contract!queueVars
  <1>1. ASSUME UNCHANGED <<now, entries, avail, availableAt, isClaimed, token, nextToken>> PROVE UNCHANGED Contract!queueVars
    BY <1>1 DEF Contract!queueVars
  <1>2. CASE Tick
    <2>1. Later' \subseteq Later /\ UNCHANGED <<entries, nextToken, OwnerOf>>
      BY <1>2 DEF Tick, entryVars, Later, OwnerOf, QueueInv, EntryTypes, HeapMatchesMap
    <2>2. CASE Later' = Later
      BY <2>1, <2>2 DEF Later, OwnerOf, Contract!queueVars
    <2>3. CASE Later' # Later
      <3>1. PICK S : S = Later \ Later'
        OBVIOUS
      <3>2. S # {} /\ S \subseteq Later /\ Later' = Later \ S
        BY <2>1, <2>3, <3>1
      <3>3. QED
        BY <2>1, <3>2 DEF Later, OwnerOf, Contract!QueueNext, Contract!ComeDue
    <2>4. QED
      BY <2>2, <2>3
  <1>3. ASSUME NEW p \in Callers, Enqueue(p), ~UNCHANGED entryVars PROVE Contract!QueueNext
    <2>1. PICK j : j = call[p].job
      OBVIOUS
    <2>2. call[p] \in EnqueueCalls
      BY <1>3, KindOfCall DEF Enqueue, Runnable, QueueInv, CallsOK
    <2>3. j \in Jobs
      BY <2>1, <2>2 DEF EnqueueCalls
    <2>4. /\ j \notin entries /\ Cardinality(entries) < Capacity /\ nextToken' = nextToken /\ now' = now
          /\ isClaimed' = [isClaimed EXCEPT ![j] = FALSE] /\ token' = [token EXCEPT ![j] = 0]
          /\ entries' = entries \cup {j} /\ avail' = avail \cup {j}
          /\ \A k \in Jobs \ {j} : availableAt'[k] = availableAt[k]
      BY <1>3, <2>1 DEF Enqueue, QueueInv, EntryTypes
    <2>5. OwnerOf' = OwnerOf
      BY <2>3, <2>4 DEF OwnerOf, QueueInv, EntryTypes
    <2>6. j \notin Later /\ Later' = (IF availableAt'[j] > now THEN Later \cup {j} ELSE Later)
      BY <2>3, <2>4 DEF Later, QueueInv, EntryTypes, HeapMatchesMap
    <2>7. PICK later \in BOOLEAN : later <=> availableAt'[j] > now
      BY Zenon
    <2>8. Later' = IF later THEN Later \cup {j} ELSE Later
      BY <2>6, <2>7
    <2>9. Contract!EnqueueJob(j, later)
      BY <2>4, <2>5, <2>8, SameCardinality DEF Later, OwnerOf, Contract!EnqueueJob, Contract!Deferral
    <2>10. QED
      BY <2>3, <2>9 DEF Contract!QueueNext
  <1>4. ASSUME NEW p \in Callers, Claim(p), ~UNCHANGED entryVars PROVE Contract!QueueNext
    <2>1. PICK j \in avail :
            /\ availableAt[j] <= now /\ avail' = avail \ {j} /\ nextToken' = nextToken + 1
            /\ isClaimed' = [isClaimed EXCEPT ![j] = TRUE] /\ token' = [token EXCEPT ![j] = nextToken + 1]
            /\ UNCHANGED <<now, entries, availableAt>>
      BY <1>4 DEF Claim, entryVars
    <2>2. j \in Jobs /\ j \in entries /\ ~isClaimed[j]
      BY DEF QueueInv, EntryTypes, HeapMatchesMap
    <2>3. j \notin Later /\ Later' = Later
      BY <2>1, <2>2 DEF Later, QueueInv, EntryTypes, HeapMatchesMap
    <2>4. OwnerOf' = [k \in Jobs |-> IF k = j THEN nextToken + 1 ELSE OwnerOf[k]] /\ OwnerOf[j] = 0
      BY <2>1, <2>2 DEF OwnerOf, QueueInv, EntryTypes
    <2>5. Contract!ClaimJob({}, j)
      BY <2>1, <2>2, <2>3, <2>4 DEF Later, OwnerOf, Contract!ClaimJob
    <2>6. QED
      BY <2>2, <2>5 DEF Contract!QueueNext
  <1>5. ASSUME NEW j \in Jobs, NEW t, Ack(j, t) \/ \E when \in 0..MaxTime : Release(j, t, when) PROVE Contract!QueueNext
    <2>1. Owns(j, t) /\ UNCHANGED <<now, token, nextToken>>
      BY <1>5 DEF Ack, Release
    <2>2. j \in entries /\ isClaimed[j] /\ token[j] > 0 /\ OwnerOf[j] = token[j] /\ j \notin avail
      BY <2>1 DEF Owns, OwnerOf, QueueInv, EntryTypes, HeapMatchesMap
    <2>3. j \in Contract!Owned
      BY <2>2 DEF Contract!Owned, QueueInv, EntryTypes, OwnerOf
    <2>4. CASE Ack(j, t)
      <3>1. entries' = entries \ {j} /\ UNCHANGED <<now, avail, availableAt, isClaimed, token, nextToken>>
        BY <2>4 DEF Ack
      <3>2. OwnerOf' = [OwnerOf EXCEPT ![j] = 0] /\ Later' = Later
        BY <2>2, <3>1 DEF OwnerOf, Later
      <3>3. Contract!AckJob(j, OwnerOf[j])
        BY <2>3, <3>1, <3>2 DEF Later, OwnerOf, Contract!AckJob
      <3>4. QED
        BY <3>3 DEF OwnerOf, Contract!QueueNext
    <2>5. ASSUME NEW when \in 0..MaxTime, Release(j, t, when) PROVE Contract!QueueNext
      <3>1. /\ UNCHANGED <<now, entries, token, nextToken>> /\ avail' = avail \cup {j}
            /\ isClaimed' = [isClaimed EXCEPT ![j] = FALSE] /\ availableAt' = [availableAt EXCEPT ![j] = when]
        BY <2>5 DEF Release
      <3>2. OwnerOf' = [OwnerOf EXCEPT ![j] = 0]
        BY <2>2, <3>1 DEF OwnerOf, QueueInv, EntryTypes
      <3>3. PICK later \in BOOLEAN : later <=> when > now
        BY Zenon
      <3>4. Later' = IF later THEN Later \cup {j} ELSE Later
        BY <2>2, <3>1, <3>3 DEF Later, QueueInv, EntryTypes, HeapMatchesMap
      <3>5. Contract!ReleaseJob(j, OwnerOf[j], later)
        BY <2>3, <3>1, <3>2, <3>4 DEF Later, OwnerOf, Contract!ReleaseJob, Contract!Deferral
      <3>6. QED
        BY <3>5 DEF OwnerOf, Contract!QueueNext
    <2>6. QED
      BY <1>5, <2>4, <2>5
  <1>6. CASE UNCHANGED <<now, entryVars>>
    BY <1>1, <1>6 DEF entryVars
  <1>7. CASE MemoryNext /\ ~UNCHANGED <<now, entryVars>>
    <2>1. CASE Close
      BY <1>1, <2>1 DEF Close
    <2>2. ASSUME NEW p \in Callers, Enqueue(p) \/ Claim(p) PROVE UNCHANGED now
      BY <2>2 DEF Enqueue, Claim
    <2>3. QED
      BY <1>2, <1>3, <1>4, <1>5, <1>7, <2>1, <2>2 DEF MemoryNext, Start, TimerFires, Cancel
  <1>8. QED
    BY <1>6, <1>7 DEF memoryVars

(* The in-memory queue keeps the contract of queue.go: every behaviour of   *)
(* memory.go is one of JobQueue, without leases.                           *)
THEOREM MemoryImplementsQueue == MemorySpec => ImplementsContract
  <1>1. MemoryInit => Contract!QueueInit
    BY DEF MemoryInit, Contract!QueueInit
  <1>2. QueueInv /\ [MemoryNext]_memoryVars => [Contract!QueueNext]_Contract!queueVars
    BY ContractStep
  <1>3. QED
    BY QueueInit, QueueStep, <1>1, <1>2, PTL DEF MemorySpec, ImplementsContract, Contract!QueueSpec
=============================================================================
