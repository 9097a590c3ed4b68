------------------------------ MODULE Broadcast ------------------------------
(***************************************************************************)
(* One broadcast: the expanders of several replicas scan its audience in   *)
(* batches, claim the pending recipients under a lease, and turn each into *)
(* a file and a message, while the tenant cancels or reschedules it,       *)
(* addresses are suppressed and subjects are erased.                       *)
(*                                                                         *)
(* Contacts are numbered in the order of the audience scan.  Recipient,    *)
(* file and message of a contact share one id, so all three are indexed by *)
(* the contact.  A step is one statement or transaction, or one call of    *)
(* the file store; the lock of ClaimActiveBroadcasts ends with its         *)
(* statement, so nothing keeps two expanders off one broadcast.            *)
(***************************************************************************)
EXTENDS Integers, FiniteSets

CONSTANTS
  Last,           \* number of contacts in the audience at audience_snapshot_at
  Expanders,
  Broken,         \* contacts whose message cannot be rendered, built or signed
  SnapshotBatch,  \* defaultSnapshotBatch
  ClaimBatch,     \* defaultMaterializeBatch
  MaxTries,       \* maxRecipientAttempts
  MaxTroubles     \* bound: refusals of admit, suppressions, erasures, reschedules,
                  \* lost domains, claims that run out in use, crashes, failing calls

Contacts == 1 .. Last

ASSUME BroadcastAssumption ==
  /\ Last \in Nat /\ Broken \subseteq Contacts
  /\ SnapshotBatch \in Nat \ {0} /\ ClaimBatch \in Nat \ {0} /\ MaxTries \in Nat \ {0}
  /\ MaxTroubles \in Nat

VARIABLES
  status,    \* broadcasts.status
  due,       \* send_at is NULL or has passed
  cursor,    \* contacts scanned so far
  complete,  \* snapshot_complete
  rec,       \* contact -> broadcast_recipients.status, "none" without a row
  leased,    \* contacts whose claimed_at is recent
  tries,     \* contact -> attempts
  supp,      \* contacts on the suppression list
  erase,     \* contact -> progress of DeleteSubjectData for its address
  files,     \* contacts with a file in the FileStore
  msgs,      \* contacts with a message row
  pc,        \* expander -> the call it makes next
  scanned,   \* expander -> SnapshotComplete of the broadcast it read
  batch,     \* expander -> claimed recipients still to be handled
  stop,      \* expander -> those it read as suppressed
  cur,       \* expander -> the recipient in hand, 0 for none
  charges,   \* history: contact -> tokens taken from the recipient bucket
  lapses,    \* history: contact -> claims that ran out in use
  faults,    \* history: crashes and failing calls
  troubles   \* history, against its bound

row == <<status, due, cursor, complete>>
store == <<files, msgs>>
local == <<pc, scanned, batch, stop, cur>>
history == <<charges, lapses, faults, troubles>>
vars == <<row, rec, leased, tries, supp, erase, store, local, history>>

Active == {"accepted", "expanding"}
Open == status \in Active /\ due

Init ==
  /\ status = "accepted" /\ due \in BOOLEAN /\ cursor = 0 /\ complete = FALSE
  /\ rec = [c \in Contacts |-> "none"]
  /\ leased = {} /\ tries = [c \in Contacts |-> 0]
  /\ supp = {} /\ erase = [c \in Contacts |-> "no"] /\ files = {} /\ msgs = {}
  /\ pc = [e \in Expanders |-> "idle"]
  /\ scanned = [e \in Expanders |-> FALSE]
  /\ batch = [e \in Expanders |-> {}]
  /\ stop = [e \in Expanders |-> {}]
  /\ cur = [e \in Expanders |-> 0]
  /\ charges = [c \in Contacts |-> 0] /\ lapses = [c \in Contacts |-> 0]
  /\ faults = 0 /\ troubles = 0

Trouble == troubles < MaxTroubles /\ troubles' = troubles + 1

Goto(e, p) == pc' = [pc EXCEPT ![e] = p]
Return(e) ==
  /\ Goto(e, "idle")
  /\ batch' = [batch EXCEPT ![e] = {}]
  /\ cur' = [cur EXCEPT ![e] = 0]
  /\ stop' = [stop EXCEPT ![e] = {}]
  /\ scanned' = [scanned EXCEPT ![e] = FALSE]

-----------------------------------------------------------------------------
(* tick and the first part of process.                                      *)

ClaimActiveBroadcasts(e) ==
  /\ pc[e] = "idle" /\ Open
  /\ Goto(e, "mark")
  /\ scanned' = [scanned EXCEPT ![e] = complete]
  /\ UNCHANGED <<row, rec, leased, tries, supp, erase, store, batch, stop, cur, history>>

MarkBroadcastExpanding(e) ==
  /\ pc[e] = "mark"
  /\ IF (status = "accepted" /\ due) \/ status = "expanding"
     THEN /\ status' = "expanding"
          /\ Goto(e, IF scanned[e] THEN "claim" ELSE "snapshot")
          /\ scanned' = [scanned EXCEPT ![e] = FALSE]
          /\ UNCHANGED <<batch, stop, cur>>
     ELSE Return(e) /\ UNCHANGED status
  /\ UNCHANGED <<due, cursor, complete, rec, leased, tries, supp, erase, store, history>>

(* The next members after the cursor; deleting a contact also deletes its   *)
(* memberships.                                                             *)
Members == {c \in Contacts : c > cursor /\ erase[c] # "done"}
NextBatch == {c \in Members : Cardinality({d \in Members : d <= c}) <= SnapshotBatch}

SnapshotBroadcastBatch(e) ==
  /\ pc[e] = "snapshot"
  /\ IF ~Open
     THEN Return(e) /\ UNCHANGED <<row, rec>>
     ELSE /\ Goto(e, "claim")
          /\ IF complete
             THEN UNCHANGED <<row, rec>>
             ELSE /\ rec' = [c \in Contacts |->
                       IF c \in NextBatch /\ rec[c] = "none" THEN "pending" ELSE rec[c]]
                  /\ cursor' \in {k \in NextBatch \cup {cursor} : \A c \in NextBatch : c <= k}
                  /\ complete' = (Cardinality(NextBatch) < SnapshotBatch)
                  /\ UNCHANGED <<status, due>>
          /\ UNCHANGED <<scanned, batch, stop, cur>>
  /\ UNCHANGED <<leased, tries, supp, erase, store, history>>

Claimable_Held == {c \in Contacts : rec[c] = "pending"}
Claimable_Untried == {c \in Contacts : rec[c] = "pending" /\ c \notin leased /\ tries[c] = 0}
Claimable == {c \in Contacts : rec[c] = "pending" /\ c \notin leased}

ClaimPendingBroadcastRecipients(e) ==
  /\ pc[e] = "claim"
  /\ \E B \in SUBSET Claimable :
       /\ IF Open THEN /\ Cardinality(B) <= ClaimBatch
                       /\ Cardinality(B) = ClaimBatch \/ B = Claimable
                  ELSE B = {}
       /\ leased' = leased \cup B
       /\ batch' = [batch EXCEPT ![e] = B]
       /\ Goto(e, IF B = {} THEN "pending" ELSE "check")
  /\ UNCHANGED <<row, rec, tries, supp, erase, store, scanned, stop, cur, history>>

(* The From domain is no longer verified: the whole broadcast fails.        *)
MarkBroadcastFailed(e) ==
  /\ pc[e] = "check" /\ Trouble
  /\ status' = IF status \in Active THEN "failed" ELSE status
  /\ Return(e)
  /\ UNCHANGED <<due, cursor, complete, rec, leased, tries, supp, erase, store,
                 charges, lapses, faults>>

SuppressedForTenant(e) ==
  /\ pc[e] = "check"
  /\ stop' = [stop EXCEPT ![e] = supp \cap batch[e]]
  /\ Goto(e, "next")
  /\ UNCHANGED <<row, rec, leased, tries, supp, erase, store, scanned, batch, cur, history>>

-----------------------------------------------------------------------------
(* materializeBatch.                                                        *)

(* The recipient in hand is done with, whatever became of it.               *)
Continue(e, c) ==
  /\ Goto(e, "next")
  /\ batch' = [batch EXCEPT ![e] = @ \ {c}]
  /\ cur' = [cur EXCEPT ![e] = 0]
  /\ stop' = [stop EXCEPT ![e] = @ \ {c}]
  /\ UNCHANGED scanned

(* The rest of the batch is given up; its claims run out by themselves.     *)
LeaveBatch(e) ==
  /\ Goto(e, "pending")
  /\ batch' = [batch EXCEPT ![e] = {}]
  /\ cur' = [cur EXCEPT ![e] = 0]
  /\ stop' = [stop EXCEPT ![e] = {}]
  /\ UNCHANGED scanned

MarkSuppressed(c) == [rec EXCEPT ![c] = IF @ = "pending" THEN "suppressed" ELSE @]
MarkMaterialized(c) == [rec EXCEPT ![c] = IF @ = "pending" THEN "materialized" ELSE @]

TakeRecipient(e) ==
  /\ pc[e] = "next"
  /\ IF batch[e] = {} THEN LeaveBatch(e) /\ UNCHANGED rec
     ELSE \E c \in batch[e] :
            IF c \in stop[e] THEN rec' = MarkSuppressed(c) /\ Continue(e, c)
            ELSE IF c \in msgs
            THEN rec' = MarkMaterialized(c) /\ Continue(e, c)
            ELSE /\ Goto(e, "admit")
                 /\ cur' = [cur EXCEPT ![e] = c]
                 /\ UNCHANGED <<rec, scanned, batch, stop>>
  /\ UNCHANGED <<row, leased, tries, supp, erase, store, history>>

Admit(e) ==
  /\ pc[e] = "admit"
  /\ charges' = [charges EXCEPT ![cur[e]] = @ + 1]
  /\ Goto(e, "render")
  /\ UNCHANGED <<row, rec, leased, tries, supp, erase, store, scanned, batch, stop, cur,
                 lapses, faults, troubles>>

Refuse(e) ==
  /\ pc[e] = "admit" /\ Trouble
  /\ LeaveBatch(e)
  /\ UNCHANGED <<row, rec, leased, tries, supp, erase, store, charges, lapses, faults>>

AfterFailure(c) == IF tries[c] + 1 >= MaxTries THEN "failed" ELSE rec[c]

(* A message that cannot be built never can: the failure is counted.        *)
RecordBroadcastRecipientFailure(e) ==
  LET c == cur[e] IN
  /\ pc[e] = "render" /\ c \in Broken
  /\ IF rec[c] = "pending"
     THEN /\ tries' = [tries EXCEPT ![c] = @ + 1]
          /\ rec' = [rec EXCEPT ![c] = AfterFailure(c)]
     ELSE UNCHANGED <<tries, rec>>
  /\ Continue(e, c)
  /\ UNCHANGED <<row, leased, supp, erase, store, history>>

(* Save; ErrRecordExists counts as success.                                 *)
Save(e) ==
  /\ pc[e] = "render" /\ cur[e] \notin Broken
  /\ files' = files \cup {cur[e]}
  /\ Goto(e, "insert")
  /\ UNCHANGED <<row, rec, leased, tries, supp, erase, msgs, scanned, batch, stop, cur, history>>

(* lockBroadcastRecipient, in the order of its checks.                      *)
Verdict_IgnoresStatus(c) ==
  IF rec[c] = "erased" THEN "erased"
  ELSE IF c \in msgs THEN "conflict"
  ELSE IF rec[c] = "pending" THEN "insert"
  ELSE "stopped"
Verdict(c) ==
  IF rec[c] = "erased" THEN "erased"
  ELSE IF c \in msgs THEN "conflict"
  ELSE IF Open /\ rec[c] = "pending" THEN "insert"
  ELSE "stopped"

InsertMessage(e) ==
  LET c == cur[e]
      v == Verdict(c)
  IN
  /\ pc[e] = "insert"
  /\ CASE v = "insert" -> /\ msgs' = msgs \cup {c}
                          /\ rec' = [rec EXCEPT ![c] = "materialized"]
                          /\ Continue(e, c)
       [] v = "conflict" -> /\ rec' = MarkMaterialized(c)
                            /\ Continue(e, c)
                            /\ UNCHANGED msgs
       [] OTHER -> /\ Goto(e, v)
                   /\ UNCHANGED <<msgs, rec, scanned, batch, stop, cur>>
  /\ UNCHANGED <<row, leased, tries, supp, erase, files, history>>

(* The file is deleted again: the recipient is gone, or the broadcast or    *)
(* recipient was stopped.                                                   *)
DeleteFile_OnlyErased(e) ==
  /\ pc[e] \in {"erased", "stopped"}
  /\ files' = IF pc[e] = "erased" THEN files \ {cur[e]} ELSE files
  /\ IF pc[e] = "erased" THEN Continue(e, cur[e]) ELSE LeaveBatch(e)
  /\ UNCHANGED <<row, rec, leased, tries, supp, erase, msgs, history>>
DeleteFile(e) ==
  /\ pc[e] \in {"erased", "stopped"}
  /\ files' = files \ {cur[e]}
  /\ IF pc[e] = "erased" THEN Continue(e, cur[e]) ELSE LeaveBatch(e)
  /\ UNCHANGED <<row, rec, leased, tries, supp, erase, msgs, history>>

-----------------------------------------------------------------------------
(* TryCompleteBroadcast: two statements.                                    *)

HasPendingBroadcastRecipients(e) ==
  /\ pc[e] = "pending"
  /\ IF \E c \in Contacts : rec[c] = "pending"
     THEN Return(e)
     ELSE Goto(e, "complete") /\ UNCHANGED <<scanned, batch, stop, cur>>
  /\ UNCHANGED <<row, rec, leased, tries, supp, erase, store, history>>

TryCompleteBroadcast(e) ==
  /\ pc[e] = "complete"
  /\ status' = IF status = "expanding" /\ complete THEN "completed" ELSE status
  /\ Return(e)
  /\ UNCHANGED <<due, cursor, complete, rec, leased, tries, supp, erase, store, history>>

-----------------------------------------------------------------------------
(* Tenants, operators, time and faults.                                     *)

CancelBroadcast ==
  /\ status \in Active
  /\ status' = "cancelled"
  /\ UNCHANGED <<due, cursor, complete, rec, leased, tries, supp, erase, store, local, history>>

RescheduleBroadcast ==
  /\ status = "accepted" /\ Trouble
  /\ due' = FALSE
  /\ UNCHANGED <<status, cursor, complete, rec, leased, tries, supp, erase, store, local,
                 charges, lapses, faults>>

ComesDue ==
  /\ ~due /\ due' = TRUE
  /\ UNCHANGED <<status, cursor, complete, rec, leased, tries, supp, erase, store, local, history>>

SetSuppression(c) ==
  /\ Trouble
  /\ supp' = IF c \in supp THEN supp \ {c} ELSE supp \cup {c}
  /\ UNCHANGED <<row, rec, leased, tries, erase, store, local, charges, lapses, faults>>

(* DeleteSubjectData reads the recipient rows of the address first, then    *)
(* deletes those, the contact and its memberships in one transaction.       *)
FindBroadcastSnapshots(c) ==
  /\ erase[c] = "no" /\ Trouble
  /\ erase' = [erase EXCEPT ![c] = IF rec[c] = "none" THEN "unseen" ELSE "seen"]
  /\ UNCHANGED <<row, rec, leased, tries, supp, store, local, charges, lapses, faults>>

Erased(c) == [rec EXCEPT ![c] = IF erase[c] = "seen" THEN "erased" ELSE @]

DeleteSubjectData(c) ==
  /\ erase[c] \in {"unseen", "seen"}
  /\ erase' = [erase EXCEPT ![c] = "done"]
  /\ rec' = Erased(c)
  /\ UNCHANGED <<row, leased, tries, supp, store, local, history>>

InUse(c) == \E e \in Expanders : c \in batch[e]

(* claimed_at becomes older than recipientClaimLease; only the claim of a   *)
(* pending recipient is ever looked at again.                               *)
LeaseExpires(c) ==
  /\ c \in leased /\ rec[c] = "pending"
  /\ leased' = leased \ {c}
  /\ IF InUse(c) THEN Trouble /\ lapses' = [lapses EXCEPT ![c] = @ + 1]
                 ELSE UNCHANGED <<troubles, lapses>>
  /\ UNCHANGED <<row, rec, tries, supp, erase, store, local, charges, faults>>

(* The process dies, or a call fails: process returns, the batch is left,   *)
(* or materializeBatch goes on with the next recipient.                     *)
Fails(e) ==
  /\ pc[e] # "idle" /\ Trouble /\ faults' = faults + 1
  /\ \/ Return(e)
     \/ pc[e] \in {"check", "admit"} /\ LeaveBatch(e)
     \/ pc[e] = "next" /\ \E c \in batch[e] : Continue(e, c)
     \/ pc[e] \in {"render", "insert", "erased", "stopped"} /\ Continue(e, cur[e])
  /\ UNCHANGED <<row, rec, leased, tries, supp, erase, store, charges, lapses>>

-----------------------------------------------------------------------------
Step(e) ==
  \/ ClaimActiveBroadcasts(e) \/ MarkBroadcastExpanding(e) \/ SnapshotBroadcastBatch(e)
  \/ ClaimPendingBroadcastRecipients(e) \/ SuppressedForTenant(e) \/ TakeRecipient(e)
  \/ Admit(e) \/ RecordBroadcastRecipientFailure(e) \/ Save(e) \/ InsertMessage(e)
  \/ DeleteFile(e) \/ HasPendingBroadcastRecipients(e) \/ TryCompleteBroadcast(e)

Next ==
  \/ \E e \in Expanders : Step(e) \/ Refuse(e) \/ MarkBroadcastFailed(e) \/ Fails(e)
  \/ \E c \in Contacts : SetSuppression(c) \/ FindBroadcastSnapshots(c) \/ DeleteSubjectData(c)
                          \/ LeaseExpires(c)
  \/ CancelBroadcast \/ RescheduleBroadcast \/ ComesDue

Spec == Init /\ [][Next]_vars

(* The expanders' loops keep running, and time passes.                      *)
LiveSpec ==
  /\ Spec
  /\ \A e \in Expanders : WF_vars(Step(e))
  /\ WF_vars(ComesDue)
  /\ \A c \in Contacts : WF_vars(LeaseExpires(c))

-----------------------------------------------------------------------------
TypeOK ==
  /\ status \in Active \cup {"completed", "cancelled", "failed"}
  /\ due \in BOOLEAN /\ cursor \in 0 .. Last /\ complete \in BOOLEAN
  /\ rec \in [Contacts -> {"none", "pending", "suppressed", "materialized", "failed", "erased"}]
  /\ leased \subseteq Contacts /\ tries \in [Contacts -> Nat]
  /\ supp \subseteq Contacts /\ files \subseteq Contacts /\ msgs \subseteq Contacts
  /\ erase \in [Contacts -> {"no", "unseen", "seen", "done"}]
  /\ pc \in [Expanders -> {"idle", "mark", "snapshot", "claim", "check", "next", "admit",
                           "render", "insert", "erased", "stopped", "pending", "complete"}]
  /\ scanned \in [Expanders -> BOOLEAN]
  /\ batch \in [Expanders -> SUBSET Contacts] /\ stop \in [Expanders -> SUBSET Contacts]
  /\ cur \in [Expanders -> Contacts \cup {0}]
  /\ charges \in [Contacts -> Nat] /\ lapses \in [Contacts -> Nat]
  /\ faults \in Nat /\ troubles \in Nat

(* A recipient is materialized exactly when its message exists, however     *)
(* many expanders hold it and wherever one died: no message outlives its    *)
(* recipient except by erasure, none belongs to a recipient that was        *)
(* suppressed or given up, and an expander that backs out of a stopped      *)
(* recipient never deletes the file a message still needs.                  *)
MessagesAreJustified ==
  \A c \in Contacts :
    /\ c \in msgs => rec[c] \in {"materialized", "erased"}
    /\ rec[c] = "materialized" => c \in msgs /\ c \in files

(* materializeOne saves the file before the message: when no call failed    *)
(* and nothing died, a file without a message is in the hands of an         *)
(* expander that inserts the message or deletes the file.                   *)
NoOrphanFiles ==
  faults = 0 =>
    \A c \in files \ msgs :
      \E e \in Expanders : cur[e] = c /\ pc[e] \in {"insert", "erased", "stopped"}

(* A recipient has a message and a file, or neither, whoever stopped where. *)
RecipientsAreSound == MessagesAreJustified /\ NoOrphanFiles

(* claimed_at keeps a recipient with one expander, so admit takes one token *)
(* for it, and one more only for a counted failure, a claim that ran out    *)
(* while in use, or a crash or failing call.                                *)
ChargedOnce ==
  \A c \in Contacts : charges[c] <= 1 + tries[c] + lapses[c] + faults

(* A broadcast that completed, failed or was cancelled stays so and creates *)
(* no message, though expanders that claimed it before go on: each of their *)
(* statements looks at the status again.                                    *)
StopIsFinal == [][status \notin Active => status' = status /\ msgs' = msgs]_vars

(* A recipient that can never be built is tried again until                 *)
(* maxRecipientAttempts and does not hold up its broadcast, and a batch     *)
(* whose expander died is claimed again: every accepted broadcast ends.     *)
BroadcastEnds == (status = "accepted") ~> (status \notin Active)

(* The comment of TryCompleteBroadcast: completed means that the audience   *)
(* is scanned and no recipient is pending, though HasPending and the UPDATE *)
(* are two statements and a snapshot may come between them.  A pass of an   *)
(* unfinished scan adds more recipients than it claims (SnapshotBatch >     *)
(* ClaimBatch), so none are pending only once the scan is finished, unless  *)
(* erasures take those that are left.                                       *)
CompletedMeansDone ==
  status = "completed" /\ (\A c \in Contacts : erase[c] = "no") =>
    complete /\ \A c \in Contacts : rec[c] # "pending"

(* A broadcast ends, once and for all, whatever its expanders still hold,   *)
(* and completes only with its audience scanned and its recipients handled. *)
EndsForGood == StopIsFinal /\ BroadcastEnds /\ []CompletedMeansDone

(* The package comment of gdpr.go: recipient rows are deleted with the      *)
(* contact, lest a snapshot be sent to an address reported as erased.  It   *)
(* fails when a batch is snapshotted after the rows were looked up.         *)
ErasedIsNotSent ==
  [][\A c \in Contacts : erase[c] = "done" /\ c \in msgs' => c \in msgs]_vars
=============================================================================
