----------------------------- MODULE Idempotency -----------------------------
(***************************************************************************)
(* Acceptance of POST /v1/emails requests that carry one Idempotency-Key:   *)
(* requests of one tenant race to claim the key, one of them writes the    *)
(* message file and the message row, the others wait for its result and    *)
(* replay it.  A claim whose owner stalls longer than idempotencyStaleAfter *)
(* may be taken over, also by a request with another payload, and the      *)
(* cleanup deletes a row whose retention has passed.                       *)
(*                                                                         *)
(* One key is modelled; keys share no state.  A request's message id is the *)
(* request itself (acceptOne draws a fresh id per request) and its         *)
(* fingerprint is its Payload.  Every database call is one statement or    *)
(* one transaction that locks the key's row, hence one step.  created_at   *)
(* identifies a claim, so it is the number of the claim; that the claim is *)
(* older than idempotencyStaleAfter is a flag of the row which time sets.  *)
(***************************************************************************)
EXTENDS Integers, FiniteSets

CONSTANTS
  Requests,     \* HTTP requests and batch items with this key
  Payloads,
  Payload,      \* the fingerprint of each request
  MaxFaults,    \* bound: crashes, failing calls and lost replies
  MaxCleanups   \* bound: rows deleted after their retention

(* Answers that are no message: no answer yet, a 4xx for an invalid        *)
(* request, 409 for another payload, 409 or 429 for "retry shortly", 5xx,   *)
(* and a connection that broke.                                             *)
Errors == {"none", "rejected", "conflict", "busy", "error", "lost"}

ASSUME IdempotencyAssumption ==
  /\ Payload \in [Requests -> Payloads]
  /\ Requests \cap (Errors \cup {"-"}) = {}
  /\ MaxFaults \in Nat /\ MaxCleanups \in Nat

VARIABLES
  row,      \* the key's row of idempotency_keys
  claims,   \* number of claims so far, the source of created_at
  pc,       \* request -> the call it makes next
  at,       \* request -> claim.CreatedAt of the claim it took
  reply,    \* request -> its answer: a message, "none" yet, or an error
  files,    \* messages in the FileStore
  made,     \* message -> retention window in which its row was committed, or 0
  window,   \* history: retention windows of the key so far
  faults    \* history: faults so far

vars == <<row, claims, pc, at, reply, files, made, window, faults>>

NoRow == [st |-> "none", fp |-> "-", at |-> 0, res |-> "-", age |-> "fresh"]
Owners == {"admit", "save", "insert"}

Init ==
  /\ row = NoRow /\ claims = 0
  /\ pc = [r \in Requests |-> "new"]
  /\ at = [r \in Requests |-> 0]
  /\ reply = [r \in Requests |-> "none"]
  /\ files = {} /\ made = [r \in Requests |-> 0]
  /\ window = 1 /\ faults = 0

Store == <<row, claims, files, made, window>>
Answer(r, a) == pc' = [pc EXCEPT ![r] = "done"] /\ reply' = [reply EXCEPT ![r] = a]
Goto(r, p) == pc' = [pc EXCEPT ![r] = p] /\ UNCHANGED reply

-----------------------------------------------------------------------------
(* acceptOne. *)

Replayable(r) == row.st = "completed" /\ row.fp = Payload[r]

(* replayIfCompleted before anything else; then the request may fail its    *)
(* validation, which does not touch the key.                                *)
Begin(r) ==
  /\ pc[r] = "new"
  /\ IF Replayable(r) THEN Answer(r, row.res)
     ELSE Goto(r, "claim") \/ Answer(r, "rejected")
  /\ UNCHANGED <<Store, at, faults>>

Claimed(r) == [st |-> "in_progress", fp |-> Payload[r], at |-> claims + 1,
               res |-> "-", age |-> "fresh"]
TakeClaim(r) ==
  /\ row' = Claimed(r)
  /\ claims' = claims + 1
  /\ at' = [at EXCEPT ![r] = claims + 1]
  /\ Goto(r, "admit")
  /\ UNCHANGED <<files, made, window, faults>>

(* INSERT ... ON CONFLICT DO NOTHING.                                       *)
ClaimInsert(r) ==
  /\ pc[r] = "claim"
  /\ IF row.st = "none" THEN TakeClaim(r)
     ELSE Goto(r, "reclaim") /\ UNCHANGED <<Store, at, faults>>

MayReclaim == row.st = "in_progress" /\ row.age = "stale"

(* UPDATE ... WHERE status = 'in_progress' AND created_at < staleCutoff.    *)
Reclaim(r) ==
  /\ pc[r] = "reclaim"
  /\ IF MayReclaim THEN TakeClaim(r)
     ELSE Goto(r, "look") /\ UNCHANGED <<Store, at, faults>>

(* The claim is someone else's: resolveIdempotency inspects it.             *)
Look(r) ==
  /\ pc[r] = "look"
  /\ CASE row.st = "none" -> Answer(r, "error")
       [] row.st # "none" /\ row.fp # Payload[r] -> Answer(r, "conflict")
       [] row.st = "completed" /\ row.fp = Payload[r] -> Answer(r, row.res)
       [] OTHER -> Goto(r, "poll")
  /\ UNCHANGED <<Store, at, faults>>

(* pollIdempotencyCompletion: it returns whatever completed the key.        *)
Poll(r) ==
  /\ pc[r] = "poll"
  /\ CASE row.st = "none" -> Answer(r, "error")
       [] row.st = "completed" -> Answer(r, row.res)
       [] OTHER -> FALSE
  /\ UNCHANGED <<Store, at, faults>>

PollTimeout_Never(r) == FALSE /\ UNCHANGED vars

PollTimeout(r) ==
  /\ pc[r] = "poll" /\ row.st = "in_progress"
  /\ Answer(r, "busy")
  /\ UNCHANGED <<Store, at, faults>>

(* admitSend refuses or lets pass; a refusal releases the claim, guarded by *)
(* fingerprint, claim time and status.                                      *)
OwnClaim_AnyTime(r) == row.st = "in_progress" /\ row.fp = Payload[r]
OwnClaim(r) == row.st = "in_progress" /\ row.fp = Payload[r] /\ row.at = at[r]

Admit(r) ==
  /\ pc[r] = "admit"
  /\ Goto(r, "save")
  /\ UNCHANGED <<Store, at, faults>>

Refuse(r) ==
  /\ pc[r] = "admit"
  /\ row' = IF OwnClaim(r) THEN NoRow ELSE row
  /\ Answer(r, "busy")
  /\ UNCHANGED <<claims, at, files, made, window, faults>>

(* FileStore.Save, before the row exists.                                   *)
Save(r) ==
  /\ pc[r] = "save"
  /\ files' = files \cup {r}
  /\ Goto(r, "insert")
  /\ UNCHANGED <<row, claims, at, made, window, faults>>

(* InsertMessage: the message and the completed key, or neither.            *)
Completes_AnyPayload(r) == row.st = "in_progress"
Completes_AnyStatus(r) == row.st # "none" /\ row.fp = Payload[r]
Completes(r) == row.st = "in_progress" /\ row.fp = Payload[r]

Commit_NoResource(r) ==
  /\ Completes(r)
  /\ row' = [row EXCEPT !.st = "completed"]
  /\ made' = [made EXCEPT ![r] = window]

Commit(r) ==
  /\ Completes(r)
  /\ row' = [row EXCEPT !.st = "completed", !.res = r]
  /\ made' = [made EXCEPT ![r] = window]

InsertMessage(r) ==
  /\ pc[r] = "insert"
  /\ \/ Commit(r) /\ Answer(r, r)
     \/ ~Completes(r) /\ Goto(r, "replay") /\ UNCHANGED <<row, made>>
  /\ UNCHANGED <<claims, at, files, window, faults>>

(* Lost the completion race: replay the winner's result if it had the same  *)
(* payload.                                                                 *)
ReplayIfCompleted(r) ==
  /\ pc[r] = "replay"
  /\ Answer(r, IF Replayable(r) THEN row.res ELSE "error")
  /\ UNCHANGED <<Store, at, faults>>

-----------------------------------------------------------------------------
(* Faults and time. *)

Fault == faults < MaxFaults /\ faults' = faults + 1

(* A call fails or the process dies: the claim is left to go stale.         *)
Fails(r) ==
  /\ pc[r] # "done"
  /\ Fault
  /\ \E a \in {"error", "lost"} : Answer(r, a)
  /\ UNCHANGED <<Store, at>>

SaveFails_Continues(r) ==
  /\ pc[r] = "save"
  /\ Fault
  /\ Goto(r, "insert")
  /\ UNCHANGED <<Store, at>>

(* Save failing after it wrote the file: an orphan file, no row.            *)
SaveFails(r) ==
  /\ pc[r] = "save"
  /\ Fault
  /\ files' = files \cup {r}
  /\ Answer(r, "error")
  /\ UNCHANGED <<row, claims, at, made, window>>

(* The commit succeeds and its reply is lost.                               *)
InsertReplyLost(r) ==
  /\ pc[r] = "insert"
  /\ Fault
  /\ Commit(r)
  /\ \E a \in {"error", "lost"} : Answer(r, a)
  /\ UNCHANGED <<claims, at, files, window>>

GoesStale ==
  /\ row.st = "in_progress" /\ row.age = "fresh"
  /\ row' = [row EXCEPT !.age = "stale"]
  /\ UNCHANGED <<claims, pc, at, reply, files, made, window, faults>>

(* DeleteExpiredIdempotencyKeys, whatever the status: the key's guarantee   *)
(* ends with its retention window.  By then a claim is long stale.          *)
Cleanup ==
  /\ window <= MaxCleanups
  /\ row.st = "completed" \/ row.age = "stale"
  /\ row' = NoRow
  /\ window' = window + 1
  /\ UNCHANGED <<claims, pc, at, reply, files, made, faults>>

-----------------------------------------------------------------------------
Step(r) ==
  \/ Begin(r) \/ ClaimInsert(r) \/ Reclaim(r) \/ Look(r) \/ Poll(r) \/ PollTimeout(r)
  \/ Admit(r) \/ Refuse(r) \/ Save(r) \/ InsertMessage(r) \/ ReplayIfCompleted(r)
FaultStep(r) == Fails(r) \/ SaveFails(r) \/ InsertReplyLost(r)
Next == (\E r \in Requests : Step(r) \/ FaultStep(r)) \/ GoesStale \/ Cleanup

Spec == Init /\ [][Next]_vars

(* Handlers run to their end; polling ends at its deadline.                 *)
LiveSpec == Spec /\ \A r \in Requests : WF_vars(Step(r))

-----------------------------------------------------------------------------
(* The row is one the schema's CHECK constraints allow, claims are numbered *)
(* in the order they were taken, and every answer is a message or an error. *)
TypeOK ==
  /\ row \in [st : {"none", "in_progress", "completed"}, fp : Payloads \cup {"-"},
              at : Nat, res : Requests \cup {"-"}, age : {"fresh", "stale"}]
  /\ claims \in Nat /\ row.at <= claims
  /\ pc \in [Requests -> Owners \cup {"new", "claim", "reclaim", "look", "poll",
                                      "replay", "done"}]
  /\ at \in [Requests -> Nat]
  /\ reply \in [Requests -> Requests \cup Errors]
  /\ files \in SUBSET Requests
  /\ made \in [Requests -> Nat] /\ window \in Nat /\ faults \in Nat
  /\ row.st = "completed" => row.res \in Requests

(* The key's guarantee: however many requests race, stall, take over or are *)
(* retried, one retention window of the key creates at most one message.    *)
OneMessagePerKey == \A r, q \in Requests :
  made[r] # 0 /\ made[r] = made[q] => r = q

(* "a future replay for the reclaimer's payload would then return the stale *)
(* claimant's unrelated message" (messages.go:122) does not happen to the   *)
(* row: a completed key names a committed message made from the payload     *)
(* whose fingerprint the row holds.                                         *)
CompletedKeyIsTrue == row.st = "completed" =>
  row.res \in Requests /\ made[row.res] = window /\ Payload[row.res] = row.fp

(* A 202 is durable: the message it names has its row and its file, and no  *)
(* row is without its file (email_handler.go:281).                          *)
AcceptedIsDurable ==
  /\ \A r \in Requests : made[r] # 0 => r \in files
  /\ \A r \in Requests : reply[r] \in Requests => made[reply[r]] # 0

(* "a claim that was reclaimed by another request ... is left alone"        *)
(* (database/abuse.go:60): as long as a claim is not stale, nothing but the *)
(* step of its own request takes it away.                                   *)
FreshClaimIsSafe == [][\A r \in Requests :
  (row.st = "in_progress" /\ row.age = "fresh" /\ row.at = at[r] /\ pc[r] \in Owners
     /\ row'.at # row.at) => pc'[r] # pc[r]]_vars

(* Every request is answered: those that wait for a claim which is never    *)
(* completed stop at the poll's deadline.                                   *)
EveryRequestAnswered == \A r \in Requests : <>(pc[r] = "done")

(* "different payload with same key => 409 (never echoes original)"         *)
(* (.ilana/architecture.md:107).                                            *)
ReplayMatchesPayload == \A r \in Requests :
  reply[r] \in Requests => Payload[reply[r]] = Payload[r]

(* An idempotency key names one message, answers with it, and what was       *)
(* answered is durable.                                                    *)
KeysAreSound == OneMessagePerKey /\ CompletedKeyIsTrue /\ AcceptedIsDurable
=============================================================================
