-------------------------- MODULE BroadcastProofs --------------------------
(* Proofs about Broadcast, for every audience, every set of expanders, any *)
(* batch sizes and any number of troubles.                                 *)
EXTENDS Broadcast, FiniteSetTheorems, TLAPS

(* Once an expander is past MarkBroadcastExpanding the broadcast has left   *)
(* "accepted" for good, and so can no longer be rescheduled.                *)
Started ==
  /\ status = "expanding" => due
  /\ \A e \in Expanders : pc[e] \notin {"idle", "mark"} => status # "accepted"

(* What an expander holds was a recipient row, and the recipient in hand is *)
(* one of its batch.                                                        *)
Held ==
  \A e \in Expanders :
    /\ \A c \in batch[e] : rec[c] # "none"
    /\ pc[e] \in {"admit", "render", "insert", "erased", "stopped"} => cur[e] \in batch[e]

(* A recipient that will never be materialized any more.                    *)
Over(c) == rec[c] \in {"suppressed", "failed", "erased"} \/ status \notin Active

(* Between Save and InsertMessage the file is there, unless another         *)
(* expander found the recipient over and deleted it; and an expander about  *)
(* to delete a file found its recipient over.                               *)
Hands ==
  \A e \in Expanders :
    /\ pc[e] = "insert" => cur[e] \in files \/ Over(cur[e])
    /\ pc[e] = "stopped" => cur[e] \notin msgs /\ Over(cur[e])
    /\ pc[e] = "erased" => rec[cur[e]] = "erased"

Core == Started /\ Held /\ Hands /\ MessagesAreJustified

(* Every step keeps the types.                                              *)
LEMMA TypeStep ==
  ASSUME TypeOK, Held, [Next]_vars
  PROVE  TypeOK'
<1> USE DEF TypeOK, Held, Active
<1>1. ASSUME NEW e \in Expanders, ClaimActiveBroadcasts(e) PROVE TypeOK'
  BY <1>1 DEF ClaimActiveBroadcasts, Open, Active, Goto, row, store, local, history
<1>2. ASSUME NEW e \in Expanders, MarkBroadcastExpanding(e) PROVE TypeOK'
  BY <1>2 DEF MarkBroadcastExpanding, Return, Active, Goto, row, store, local, history
<1>3. ASSUME NEW e \in Expanders, SnapshotBroadcastBatch(e) PROVE TypeOK'
  <2> USE <1>3 DEF SnapshotBroadcastBatch
  <2>1. CASE ~Open
    BY <2>1 DEF Return, Goto, row, store, history
  <2>2. CASE Open /\ complete
    BY <2>2 DEF Goto, row, store, history
  <2>3. CASE Open /\ ~complete
    <3>1. cursor' \in 0 .. Last
      BY <2>3, BroadcastAssumption DEF NextBatch, Members, Contacts
    <3>2. complete' \in BOOLEAN
      BY <2>3
    <3> HIDE <1>3
    <3>3. /\ rec' \in [Contacts -> {"none", "pending", "suppressed", "materialized", "failed", "erased"}]
          /\ pc' = [pc EXCEPT ![e] = "claim"]
          /\ UNCHANGED <<status, due, scanned, batch, stop, cur>>
          /\ UNCHANGED <<leased, tries, supp, erase, store, history>>
      BY <1>3, <2>3 DEF Goto
    <3> QED BY <3>1, <3>2, <3>3 DEF store, history
  <2> QED BY <2>1, <2>2, <2>3
<1>4. ASSUME NEW e \in Expanders, ClaimPendingBroadcastRecipients(e) PROVE TypeOK'
  BY <1>4 DEF ClaimPendingBroadcastRecipients, Claimable, Goto, row, store, local, history
<1>5. ASSUME NEW e \in Expanders, MarkBroadcastFailed(e) PROVE TypeOK'
  BY <1>5 DEF MarkBroadcastFailed, Return, Trouble, Active, Goto, row, store, local, history
<1>6. ASSUME NEW e \in Expanders, SuppressedForTenant(e) PROVE TypeOK'
  BY <1>6 DEF SuppressedForTenant, Goto, row, store, local, history
<1>7. ASSUME NEW e \in Expanders, TakeRecipient(e) PROVE TypeOK'
  BY <1>7 DEF TakeRecipient, LeaveBatch, Continue, MarkSuppressed, MarkMaterialized, Goto, row, store, local, history
<1>8. ASSUME NEW e \in Expanders, Admit(e) PROVE TypeOK'
  BY <1>8 DEF Admit, Goto, row, store, local, history
<1>9. ASSUME NEW e \in Expanders, Refuse(e) PROVE TypeOK'
  BY <1>9 DEF Refuse, LeaveBatch, Trouble, Goto, row, store, local, history
<1>10. ASSUME NEW e \in Expanders, RecordBroadcastRecipientFailure(e) PROVE TypeOK'
  BY <1>10 DEF RecordBroadcastRecipientFailure, Continue, AfterFailure, Goto, row, store, local, history
<1>11. ASSUME NEW e \in Expanders, Save(e) PROVE TypeOK'
  BY <1>11 DEF Save, Goto, row, store, local, history
<1>12. ASSUME NEW e \in Expanders, InsertMessage(e) PROVE TypeOK'
  BY <1>12 DEF InsertMessage, Continue, MarkMaterialized, Verdict, Open, Active, Goto, row, store, local, history
<1>13. ASSUME NEW e \in Expanders, DeleteFile(e) PROVE TypeOK'
  BY <1>13 DEF DeleteFile, Continue, LeaveBatch, Goto, row, store, local, history
<1>14. ASSUME NEW e \in Expanders, HasPendingBroadcastRecipients(e) PROVE TypeOK'
  BY <1>14 DEF HasPendingBroadcastRecipients, Return, Goto, row, store, local, history
<1>15. ASSUME NEW e \in Expanders, TryCompleteBroadcast(e) PROVE TypeOK'
  BY <1>15 DEF TryCompleteBroadcast, Return, Goto, row, store, local, history
<1>16. ASSUME NEW e \in Expanders, Fails(e) PROVE TypeOK'
  <2>1. /\ faults' \in Nat /\ troubles' \in Nat
        /\ UNCHANGED <<row, rec, leased, tries, supp, erase, store, charges, lapses>>
    BY <1>16 DEF Fails, Trouble
  <2>2. CASE Return(e)
    BY <2>1, <2>2 DEF Return, Goto, row, store
  <2>3. CASE LeaveBatch(e)
    BY <2>1, <2>3 DEF LeaveBatch, Goto, row, store
  <2>4. ASSUME NEW c, Continue(e, c) PROVE TypeOK'
    BY <2>1, <2>4 DEF Continue, Goto, row, store
  <2> QED BY <1>16, <2>2, <2>3, <2>4 DEF Fails
<1>17. ASSUME NEW c \in Contacts, SetSuppression(c) PROVE TypeOK'
  BY <1>17 DEF SetSuppression, Trouble, row, store, local, history
<1>18. ASSUME NEW c \in Contacts, FindBroadcastSnapshots(c) PROVE TypeOK'
  BY <1>18 DEF FindBroadcastSnapshots, Trouble, row, store, local, history
<1>19. ASSUME NEW c \in Contacts, DeleteSubjectData(c) PROVE TypeOK'
  BY <1>19 DEF DeleteSubjectData, Erased, row, store, local, history
<1>20. ASSUME NEW c \in Contacts, LeaseExpires(c) PROVE TypeOK'
  BY <1>20 DEF LeaseExpires, Trouble, row, store, local, history
<1>21. CASE CancelBroadcast
  BY <1>21 DEF CancelBroadcast, row, store, local, history
<1>22. CASE RescheduleBroadcast
  <2>1. due' \in BOOLEAN
    BY <1>22, Zenon DEF RescheduleBroadcast
  <2>2. troubles' \in Nat
    BY <1>22 DEF RescheduleBroadcast, Trouble
  <2> QED BY <1>22, <2>1, <2>2 DEF RescheduleBroadcast, store, local
<1>23. CASE ComesDue
  BY <1>23 DEF ComesDue, row, store, local, history
<1>24. CASE UNCHANGED vars
  BY <1>24 DEF vars, row, store, local, history
<1> QED BY <1>1, <1>2, <1>3, <1>4, <1>5, <1>6, <1>7, <1>8, <1>9, <1>10, <1>11, <1>12, <1>13, <1>14, <1>15, <1>16, <1>17, <1>18, <1>19, <1>20, <1>21, <1>22, <1>23, <1>24 DEF Next, Step

(* Every step keeps the rest of the invariant.                              *)
LEMMA CoreStep ==
  ASSUME TypeOK, Core, [Next]_vars
  PROVE  Core'
<1> USE BroadcastAssumption DEF TypeOK, Core, Started, Held, Hands, Over, MessagesAreJustified, Active
<1>1. ASSUME NEW e \in Expanders, ClaimActiveBroadcasts(e) PROVE Core'
  BY <1>1 DEF ClaimActiveBroadcasts, Open, Active, Goto, row, store, local, history
<1>2. ASSUME NEW e \in Expanders, MarkBroadcastExpanding(e) PROVE Core'
  BY <1>2 DEF MarkBroadcastExpanding, Return, Active, Goto, row, store, local, history
<1>3. ASSUME NEW e \in Expanders, SnapshotBroadcastBatch(e) PROVE Core'
  <2> USE <1>3 DEF SnapshotBroadcastBatch
  <2>1. CASE ~Open
    BY <2>1 DEF Return, Goto, row, store, history
  <2>2. CASE Open /\ complete
    BY <2>2 DEF Goto, row, store, history
  <2>3. CASE Open /\ ~complete
    <3>1. \A c \in Contacts : rec'[c] = rec[c] \/ (rec[c] = "none" /\ rec'[c] = "pending")
      BY <2>3
    <3>2. /\ pc' = [pc EXCEPT ![e] = "claim"]
          /\ UNCHANGED <<status, due, batch, cur, files, msgs>>
      BY <2>3 DEF Goto, store
    <3> HIDE <1>3
    <3>3. pc[e] = "snapshot"
      BY <1>3
    <3> HIDE DEF SnapshotBroadcastBatch
    <3>4. Started' /\ Held' BY <3>1, <3>2, <3>3
    <3>5. Hands' BY <3>1, <3>2, <3>3
    <3>6. MessagesAreJustified' BY <3>1, <3>2
    <3> QED BY <3>4, <3>5, <3>6
  <2> QED BY <2>1, <2>2, <2>3
<1>4. ASSUME NEW e \in Expanders, ClaimPendingBroadcastRecipients(e) PROVE Core'
  BY <1>4 DEF ClaimPendingBroadcastRecipients, Claimable, Goto, row, store, local, history
<1>5. ASSUME NEW e \in Expanders, MarkBroadcastFailed(e) PROVE Core'
  BY <1>5 DEF MarkBroadcastFailed, Return, Trouble, Active, Goto, row, store, local, history
<1>6. ASSUME NEW e \in Expanders, SuppressedForTenant(e) PROVE Core'
  BY <1>6 DEF SuppressedForTenant, Goto, row, store, local, history
<1>7. ASSUME NEW e \in Expanders, TakeRecipient(e) PROVE Core'
  BY <1>7 DEF TakeRecipient, LeaveBatch, Continue, MarkSuppressed, MarkMaterialized, Goto, row, store, local, history
<1>8. ASSUME NEW e \in Expanders, Admit(e) PROVE Core'
  BY <1>8 DEF Admit, Goto, row, store, local, history
<1>9. ASSUME NEW e \in Expanders, Refuse(e) PROVE Core'
  BY <1>9 DEF Refuse, LeaveBatch, Trouble, Goto, row, store, local, history
<1>10. ASSUME NEW e \in Expanders, RecordBroadcastRecipientFailure(e) PROVE Core'
  BY <1>10 DEF RecordBroadcastRecipientFailure, Continue, AfterFailure, Goto, row, store, local, history
<1>11. ASSUME NEW e \in Expanders, Save(e) PROVE Core'
  BY <1>11 DEF Save, Goto, row, store, local, history
<1>12. ASSUME NEW e \in Expanders, InsertMessage(e) PROVE Core'
  BY <1>12 DEF InsertMessage, Continue, MarkMaterialized, Verdict, Open, Active, Goto, row, store, local, history
<1>13. ASSUME NEW e \in Expanders, DeleteFile(e) PROVE Core'
  BY <1>13 DEF DeleteFile, Continue, LeaveBatch, Goto, row, store, local, history
<1>14. ASSUME NEW e \in Expanders, HasPendingBroadcastRecipients(e) PROVE Core'
  BY <1>14 DEF HasPendingBroadcastRecipients, Return, Goto, row, store, local, history
<1>15. ASSUME NEW e \in Expanders, TryCompleteBroadcast(e) PROVE Core'
  BY <1>15 DEF TryCompleteBroadcast, Return, Goto, row, store, local, history
<1>16. ASSUME NEW e \in Expanders, Fails(e) PROVE Core'
  BY <1>16 DEF Fails, Return, LeaveBatch, Continue, Trouble, Goto, row, store, local, history
<1>17. ASSUME NEW c \in Contacts, SetSuppression(c) PROVE Core'
  BY <1>17 DEF SetSuppression, Trouble, row, store, local, history
<1>18. ASSUME NEW c \in Contacts, FindBroadcastSnapshots(c) PROVE Core'
  BY <1>18 DEF FindBroadcastSnapshots, Trouble, row, store, local, history
<1>19. ASSUME NEW c \in Contacts, DeleteSubjectData(c) PROVE Core'
  BY <1>19 DEF DeleteSubjectData, Erased, row, store, local, history
<1>20. ASSUME NEW c \in Contacts, LeaseExpires(c) PROVE Core'
  BY <1>20 DEF LeaseExpires, Trouble, row, store, local, history
<1>21. CASE CancelBroadcast
  BY <1>21 DEF CancelBroadcast, row, store, local, history
<1>22. CASE RescheduleBroadcast
  BY <1>22 DEF RescheduleBroadcast, Trouble, row, store, local, history
<1>23. CASE ComesDue
  BY <1>23 DEF ComesDue, row, store, local, history
<1>24. CASE UNCHANGED vars
  BY <1>24 DEF vars, row, store, local, history
<1> QED BY <1>1, <1>2, <1>3, <1>4, <1>5, <1>6, <1>7, <1>8, <1>9, <1>10, <1>11, <1>12, <1>13, <1>14, <1>15, <1>16, <1>17, <1>18, <1>19, <1>20, <1>21, <1>22, <1>23, <1>24 DEF Next, Step

(* Every step leaves a file without a message in someone's hands, or is a   *)
(* fault.                                                                   *)
LEMMA OwnerStep ==
  ASSUME TypeOK, Core, NoOrphanFiles, [Next]_vars
  PROVE  NoOrphanFiles'
<1> USE DEF NoOrphanFiles, TypeOK, Core, Held
<1>1. ASSUME NEW e \in Expanders, ClaimActiveBroadcasts(e) PROVE NoOrphanFiles'
  BY <1>1 DEF ClaimActiveBroadcasts, Open, Active, Goto, row, store, history
<1>2. ASSUME NEW e \in Expanders, MarkBroadcastExpanding(e) PROVE NoOrphanFiles'
  BY <1>2 DEF MarkBroadcastExpanding, Return, Active, Goto, row, store, history
<1>3. ASSUME NEW e \in Expanders, SnapshotBroadcastBatch(e) PROVE NoOrphanFiles'
  BY <1>3 DEF SnapshotBroadcastBatch, Return, Open, Active, Goto, row, store, history
<1>4. ASSUME NEW e \in Expanders, ClaimPendingBroadcastRecipients(e) PROVE NoOrphanFiles'
  BY <1>4 DEF ClaimPendingBroadcastRecipients, Goto, row, store, history
<1>5. ASSUME NEW e \in Expanders, MarkBroadcastFailed(e) PROVE NoOrphanFiles'
  BY <1>5 DEF MarkBroadcastFailed, Return, Trouble, Active, Goto, row, store, history
<1>6. ASSUME NEW e \in Expanders, SuppressedForTenant(e) PROVE NoOrphanFiles'
  BY <1>6 DEF SuppressedForTenant, Goto, row, store, history
<1>7. ASSUME NEW e \in Expanders, TakeRecipient(e) PROVE NoOrphanFiles'
  BY <1>7 DEF TakeRecipient, LeaveBatch, Continue, Goto, row, store, history
<1>8. ASSUME NEW e \in Expanders, Admit(e) PROVE NoOrphanFiles'
  BY <1>8 DEF Admit, Goto, row, store, history
<1>9. ASSUME NEW e \in Expanders, Refuse(e) PROVE NoOrphanFiles'
  BY <1>9 DEF Refuse, LeaveBatch, Trouble, Goto, row, store, history
<1>10. ASSUME NEW e \in Expanders, RecordBroadcastRecipientFailure(e) PROVE NoOrphanFiles'
  BY <1>10 DEF RecordBroadcastRecipientFailure, Continue, Goto, row, store, history
<1>11. ASSUME NEW e \in Expanders, Save(e) PROVE NoOrphanFiles'
  BY <1>11 DEF Save, Goto, row, store, history
<1>12. ASSUME NEW e \in Expanders, InsertMessage(e) PROVE NoOrphanFiles'
  BY <1>12 DEF InsertMessage, Continue, Verdict, Open, Active, Goto, row, store, history
<1>13. ASSUME NEW e \in Expanders, DeleteFile(e) PROVE NoOrphanFiles'
  BY <1>13 DEF DeleteFile, Continue, LeaveBatch, Goto, row, store, history
<1>14. ASSUME NEW e \in Expanders, HasPendingBroadcastRecipients(e) PROVE NoOrphanFiles'
  BY <1>14 DEF HasPendingBroadcastRecipients, Return, Goto, row, store, history
<1>15. ASSUME NEW e \in Expanders, TryCompleteBroadcast(e) PROVE NoOrphanFiles'
  BY <1>15 DEF TryCompleteBroadcast, Return, Goto, row, store, history
<1>16. ASSUME NEW e \in Expanders, Fails(e) PROVE NoOrphanFiles'
  BY <1>16 DEF Fails, Return, LeaveBatch, Continue, Trouble, Goto, row, store, history
<1>17. ASSUME NEW c \in Contacts, SetSuppression(c) PROVE NoOrphanFiles'
  BY <1>17 DEF SetSuppression, store, local, history
<1>18. ASSUME NEW c \in Contacts, FindBroadcastSnapshots(c) PROVE NoOrphanFiles'
  BY <1>18 DEF FindBroadcastSnapshots, store, local, history
<1>19. ASSUME NEW c \in Contacts, DeleteSubjectData(c) PROVE NoOrphanFiles'
  BY <1>19 DEF DeleteSubjectData, store, local, history
<1>20. ASSUME NEW c \in Contacts, LeaseExpires(c) PROVE NoOrphanFiles'
  BY <1>20 DEF LeaseExpires, store, local, history
<1>21. CASE CancelBroadcast
  BY <1>21 DEF CancelBroadcast, store, local, history
<1>22. CASE RescheduleBroadcast
  BY <1>22 DEF RescheduleBroadcast, store, local, history
<1>23. CASE ComesDue
  BY <1>23 DEF ComesDue, store, local, history
<1>24. CASE UNCHANGED vars
  BY <1>24 DEF vars, store, local, history
<1> QED BY <1>1, <1>2, <1>3, <1>4, <1>5, <1>6, <1>7, <1>8, <1>9, <1>10, <1>11, <1>12,
             <1>13, <1>14, <1>15, <1>16, <1>17, <1>18, <1>19, <1>20, <1>21, <1>22, <1>23, <1>24 DEF Next, Step

(* Init satisfies the invariant.                                            *)
LEMMA InitEstablishes == Init => TypeOK /\ Core /\ NoOrphanFiles
<1> SUFFICES ASSUME Init PROVE TypeOK /\ Core /\ NoOrphanFiles OBVIOUS
<1>1. TypeOK
  <2>1. due \in BOOLEAN /\ complete \in BOOLEAN
    BY Zenon DEF Init
  <2>2. 0 \in 0 .. Last
    BY BroadcastAssumption
  <2>3. scanned \in [Expanders -> BOOLEAN]
    BY DEF Init
  <2> QED BY <2>1, <2>2, <2>3 DEF Init, TypeOK, Active
<1>2. Core BY DEF Init, Core, Started, Held, Hands, MessagesAreJustified
<1>3. NoOrphanFiles BY DEF Init, NoOrphanFiles
<1> QED BY <1>1, <1>2, <1>3

(* The conjunction is inductive.                                            *)
LEMMA Invariance == Spec => [](TypeOK /\ Core /\ NoOrphanFiles)
<1>1. TypeOK /\ Core /\ NoOrphanFiles /\ [Next]_vars => (TypeOK /\ Core /\ NoOrphanFiles)'
  BY TypeStep, CoreStep, OwnerStep DEF Core
<1> QED BY <1>1, InitEstablishes, PTL DEF Spec

(* The rows of broadcasts and broadcast_recipients and the locals of the    *)
(* expanders stay within their types.                                       *)
THEOREM BroadcastTypeCorrect == Spec => []TypeOK
  BY Invariance, PTL

(* Of lockBroadcastRecipient, InsertMessage and DeleteFile: a recipient is  *)
(* materialized exactly when its message exists, with its file, for any     *)
(* number of expanders, lapses, crashes and failing calls.                  *)
THEOREM MessagesHaveReasons == Spec => []MessagesAreJustified
<1>1. Core => MessagesAreJustified BY DEF Core
<1> QED BY <1>1, Invariance, PTL

(* materializeOne without faults leaves no file behind that no message and  *)
(* no expander accounts for.                                                *)
THEOREM FilesHaveOwners == Spec => []NoOrphanFiles
  BY Invariance, PTL

(* Message and file of a recipient together (materializeOne).               *)
THEOREM RecipientsHaveBothOrNeither == Spec => []RecipientsAreSound
  BY MessagesHaveReasons, FilesHaveOwners, PTL DEF RecipientsAreSound

(* A broadcast that completed, failed or was cancelled neither changes nor  *)
(* creates a message.                                                       *)
THEOREM StopsAreFinal == Spec => StopIsFinal
<1>1. ASSUME [Next]_vars PROVE [status \notin Active => status' = status /\ msgs' = msgs]_vars
  <2> SUFFICES ASSUME status \notin Active PROVE status' = status /\ msgs' = msgs
    OBVIOUS
  <2> USE DEF Active, row, store
  <2>1. ASSUME NEW e \in Expanders, ClaimActiveBroadcasts(e) PROVE status' = status /\ msgs' = msgs
    BY <2>1 DEF ClaimActiveBroadcasts, Open
  <2>2. ASSUME NEW e \in Expanders, MarkBroadcastExpanding(e) PROVE status' = status /\ msgs' = msgs
    BY <2>2 DEF MarkBroadcastExpanding
  <2>3. ASSUME NEW e \in Expanders, SnapshotBroadcastBatch(e) PROVE status' = status /\ msgs' = msgs
    BY <2>3 DEF SnapshotBroadcastBatch, Open
  <2>4. ASSUME NEW e \in Expanders, ClaimPendingBroadcastRecipients(e) PROVE status' = status /\ msgs' = msgs
    BY <2>4 DEF ClaimPendingBroadcastRecipients
  <2>5. ASSUME NEW e \in Expanders, MarkBroadcastFailed(e) PROVE status' = status /\ msgs' = msgs
    BY <2>5 DEF MarkBroadcastFailed
  <2>6. ASSUME NEW e \in Expanders, SuppressedForTenant(e) PROVE status' = status /\ msgs' = msgs
    BY <2>6 DEF SuppressedForTenant
  <2>7. ASSUME NEW e \in Expanders, TakeRecipient(e) PROVE status' = status /\ msgs' = msgs
    BY <2>7 DEF TakeRecipient
  <2>8. ASSUME NEW e \in Expanders, Admit(e) PROVE status' = status /\ msgs' = msgs
    BY <2>8 DEF Admit
  <2>9. ASSUME NEW e \in Expanders, Refuse(e) PROVE status' = status /\ msgs' = msgs
    BY <2>9 DEF Refuse
  <2>10. ASSUME NEW e \in Expanders, RecordBroadcastRecipientFailure(e) PROVE status' = status /\ msgs' = msgs
    BY <2>10 DEF RecordBroadcastRecipientFailure
  <2>11. ASSUME NEW e \in Expanders, Save(e) PROVE status' = status /\ msgs' = msgs
    BY <2>11 DEF Save
  <2>12. ASSUME NEW e \in Expanders, InsertMessage(e) PROVE status' = status /\ msgs' = msgs
    BY <2>12 DEF InsertMessage, Verdict, Open
  <2>13. ASSUME NEW e \in Expanders, DeleteFile(e) PROVE status' = status /\ msgs' = msgs
    BY <2>13 DEF DeleteFile
  <2>14. ASSUME NEW e \in Expanders, HasPendingBroadcastRecipients(e) PROVE status' = status /\ msgs' = msgs
    BY <2>14 DEF HasPendingBroadcastRecipients
  <2>15. ASSUME NEW e \in Expanders, TryCompleteBroadcast(e) PROVE status' = status /\ msgs' = msgs
    BY <2>15 DEF TryCompleteBroadcast
  <2>16. ASSUME NEW e \in Expanders, Fails(e) PROVE status' = status /\ msgs' = msgs
    BY <2>16 DEF Fails
  <2>17. ASSUME NEW c \in Contacts, SetSuppression(c) PROVE status' = status /\ msgs' = msgs
    BY <2>17 DEF SetSuppression
  <2>18. ASSUME NEW c \in Contacts, FindBroadcastSnapshots(c) PROVE status' = status /\ msgs' = msgs
    BY <2>18 DEF FindBroadcastSnapshots
  <2>19. ASSUME NEW c \in Contacts, DeleteSubjectData(c) PROVE status' = status /\ msgs' = msgs
    BY <2>19 DEF DeleteSubjectData
  <2>20. ASSUME NEW c \in Contacts, LeaseExpires(c) PROVE status' = status /\ msgs' = msgs
    BY <2>20 DEF LeaseExpires
  <2>21. CASE CancelBroadcast \/ RescheduleBroadcast \/ ComesDue
    BY <2>21 DEF CancelBroadcast, RescheduleBroadcast, ComesDue
  <2>22. CASE UNCHANGED vars
    BY <2>22 DEF vars
  <2> QED BY <1>1, <2>1, <2>2, <2>3, <2>4, <2>5, <2>6, <2>7, <2>8, <2>9, <2>10, <2>11, <2>12,
               <2>13, <2>14, <2>15, <2>16, <2>17, <2>18, <2>19, <2>20, <2>21, <2>22 DEF Next, Step
<1> QED BY <1>1, PTL DEF Spec, StopIsFinal
-----------------------------------------------------------------------------
(* Charges.  An expander that holds a recipient it has not charged for will  *)
(* charge, and so may one that claims a recipient nobody keeps from it.      *)
InHand == {"render", "insert", "erased", "stopped"}
Waits(e, c) == c \in batch[e] /\ ~(cur[e] = c /\ pc[e] \in InHand)
Waiting(c) == {e \in Expanders : Waits(e, c)}
Free(c) == status \in Active /\ rec[c] \in {"none", "pending"} /\ (c \notin leased \/ ~InUse(c))
Credit(c) == tries[c] + lapses[c] + faults

(* Charges made and charges to come are paid for.                           *)
Budget(c) ==
  /\ IsFiniteSet(Waiting(c))
  /\ charges[c] + Cardinality(Waiting(c)) + (IF Free(c) THEN 1 ELSE 0) <= 1 + Credit(c)

(* Outside materializeBatch an expander holds no recipient.                 *)
EmptyHanded ==
  \A e \in Expanders :
    pc[e] \in {"idle", "mark", "snapshot", "claim", "pending", "complete"} => batch[e] = {}

ChargeInv == EmptyHanded /\ \A c \in Contacts : Budget(c)

(* The terms of the budget are numbers.                                     *)
LEMMA CreditIsCounted ==
  ASSUME TypeOK, NEW c \in Contacts
  PROVE  Credit(c) \in Nat /\ charges[c] \in Nat
  BY DEF TypeOK, Credit

(* Nobody but e takes up or puts down c: at most one charge more or less is  *)
(* to come.                                                                 *)
LEMMA WaitingMoves ==
  ASSUME NEW c, NEW e \in Expanders, IsFiniteSet(Waiting(c)),
         \A f \in Expanders \ {e} : Waits(f, c)' <=> Waits(f, c)
  PROVE  /\ IsFiniteSet(Waiting(c)') /\ Cardinality(Waiting(c)') \in Nat /\ Cardinality(Waiting(c)) \in Nat
         /\ (Waits(e, c)' <=> Waits(e, c)) => Cardinality(Waiting(c)') = Cardinality(Waiting(c))
         /\ Waits(e, c) /\ ~Waits(e, c)' => Cardinality(Waiting(c)') = Cardinality(Waiting(c)) - 1
         /\ Cardinality(Waiting(c)') <= Cardinality(Waiting(c)) + 1
  <1>0. IsFiniteSet(Waiting(c) \ {e}) /\ IsFiniteSet(Waiting(c) \cup {e})
    BY FS_RemoveElement, FS_AddElement
  <1>1. CASE Waits(e, c)' <=> Waits(e, c)
    <2>1. Waiting(c)' = Waiting(c)
      BY <1>1 DEF Waiting
    <2>2. QED
      BY <2>1, <1>1, FS_CardinalityType
  <1>2. CASE Waits(e, c) /\ ~Waits(e, c)'
    <2>1. Waiting(c)' = Waiting(c) \ {e} /\ e \in Waiting(c)
      BY <1>2 DEF Waiting
    <2>2. Cardinality(Waiting(c) \ {e}) = Cardinality(Waiting(c)) - 1
      BY <2>1, FS_RemoveElement
    <2>3. QED
      BY <2>1, <2>2, <1>0, <1>2, FS_CardinalityType
  <1>3. CASE ~Waits(e, c) /\ Waits(e, c)'
    <2>1. Waiting(c)' = Waiting(c) \cup {e} /\ e \notin Waiting(c)
      BY <1>3 DEF Waiting
    <2>2. Cardinality(Waiting(c) \cup {e}) = Cardinality(Waiting(c)) + 1
      BY <2>1, FS_AddElement
    <2>3. QED
      BY <2>1, <2>2, <1>0, <1>3, FS_CardinalityType
  <1>4. QED
    BY <1>1, <1>2, <1>3

(* What an expander's step does to the hands of the others: nothing.         *)
OnlyHis(e) ==
  \A f \in Expanders \ {e} : batch'[f] = batch[f] /\ cur'[f] = cur[f] /\ pc'[f] = pc[f]

(* Broadcast and recipient go forward only, and no claim ends.              *)
Forward(c) ==
  /\ status' \in Active => status \in Active
  /\ rec'[c] \in {"none", "pending"} => rec[c] \in {"none", "pending"}
  /\ c \in leased => c \in leased'

(* A recipient becomes free to claim only when its holder puts it down.      *)
LEMMA FreedByItsHolder ==
  ASSUME NEW c, NEW e \in Expanders, OnlyHis(e), Forward(c), Free(c)'
  PROVE  Free(c) \/ (c \in batch[e] /\ c \notin batch'[e])
  <1>1. CASE c \notin leased'
    BY <1>1 DEF Free, Forward
  <1>2. CASE ~InUse(c)'
    BY <1>2 DEF Free, Forward, InUse, OnlyHis
  <1>3. QED
    BY <1>1, <1>2 DEF Free

(* An expander that puts a recipient down gives up its charge, or leaves a   *)
(* reason for one more, or leaves it where nobody charges for it.           *)
LEMMA PutDown ==
  ASSUME TypeOK, TypeOK', NEW c \in Contacts, Budget(c), NEW e \in Expanders, OnlyHis(e), Forward(c),
         charges'[c] = charges[c], Credit(c)' >= Credit(c), Waits(e, c)' => Waits(e, c),
         (c \in batch[e] /\ c \notin batch'[e] /\ ~Waits(e, c)) => ~Free(c)' \/ Credit(c)' >= Credit(c) + 1
  PROVE  Budget(c)'
  <1>1. IsFiniteSet(Waiting(c)) /\ charges[c] + Cardinality(Waiting(c)) + (IF Free(c) THEN 1 ELSE 0) <= 1 + Credit(c)
    BY DEF Budget
  <1>2. \A f \in Expanders \ {e} : Waits(f, c)' <=> Waits(f, c)
    BY DEF Waits, OnlyHis
  <1>3. /\ IsFiniteSet(Waiting(c)') /\ Cardinality(Waiting(c)') \in Nat /\ Cardinality(Waiting(c)) \in Nat
        /\ (Waits(e, c)' <=> Waits(e, c)) => Cardinality(Waiting(c)') = Cardinality(Waiting(c))
        /\ Waits(e, c) /\ ~Waits(e, c)' => Cardinality(Waiting(c)') = Cardinality(Waiting(c)) - 1
    BY <1>1, <1>2, WaitingMoves
  <1>4. Credit(c) \in Nat /\ Credit(c)' \in Nat /\ charges[c] \in Nat
    BY CreditIsCounted DEF TypeOK, Credit
  <1>5. Free(c)' => Free(c) \/ (Waits(e, c) /\ ~Waits(e, c)') \/ Credit(c)' >= Credit(c) + 1
    BY FreedByItsHolder DEF Waits
  <1>6. charges'[c] + Cardinality(Waiting(c)') + (IF Free(c)' THEN 1 ELSE 0) <= 1 + Credit(c)'
    <2> HIDE DEF Free, Waits, Waiting, Credit
    <2>1. CASE ~Free(c)'
      BY <2>1, <1>1, <1>3, <1>4
    <2>2. CASE Free(c)' /\ Free(c)
      BY <2>2, <1>1, <1>3, <1>4
    <2>3. CASE Free(c)' /\ Waits(e, c) /\ ~Waits(e, c)'
      BY <2>3, <1>1, <1>3, <1>4
    <2>4. CASE Free(c)' /\ Credit(c)' >= Credit(c) + 1
      BY <2>4, <1>1, <1>3, <1>4
    <2>5. QED
      BY <2>1, <2>2, <2>3, <2>4, <1>5
  <1>7. QED
    BY <1>3, <1>6 DEF Budget

(* Nobody's hands move.                                                      *)
LEMMA HandsStill ==
  ASSUME TypeOK, TypeOK', NEW c \in Contacts, Budget(c), UNCHANGED <<pc, batch, cur>>,
         charges'[c] = charges[c], Credit(c)' >= Credit(c),
         Free(c)' => Free(c) \/ Credit(c)' >= Credit(c) + 1
  PROVE  Budget(c)'
  <1>1. IsFiniteSet(Waiting(c)) /\ charges[c] + Cardinality(Waiting(c)) + (IF Free(c) THEN 1 ELSE 0) <= 1 + Credit(c)
    BY DEF Budget
  <1>2. Waiting(c)' = Waiting(c) /\ Cardinality(Waiting(c)) \in Nat
    BY <1>1, FS_CardinalityType DEF Waiting, Waits
  <1>3. Credit(c) \in Nat /\ Credit(c)' \in Nat /\ charges[c] \in Nat
    BY CreditIsCounted DEF TypeOK, Credit
  <1>4. charges'[c] + Cardinality(Waiting(c)') + (IF Free(c)' THEN 1 ELSE 0) <= 1 + Credit(c)'
    BY <1>1, <1>2, <1>3
  <1>5. QED
    BY <1>1, <1>2, <1>4 DEF Budget

(* Every step keeps the budget of every recipient.                          *)
LEMMA ChargeStep ==
  ASSUME TypeOK, TypeOK', Core, ChargeInv, [Next]_vars
  PROVE  ChargeInv'
<1> USE DEF row, store, local, history, Goto
<1>0. /\ pc \in [Expanders -> {"idle", "mark", "snapshot", "claim", "check", "next", "admit",
                              "render", "insert", "erased", "stopped", "pending", "complete"}]
      /\ batch \in [Expanders -> SUBSET Contacts] /\ cur \in [Expanders -> Contacts \cup {0}]
      /\ charges \in [Contacts -> Nat] /\ lapses \in [Contacts -> Nat] /\ tries \in [Contacts -> Nat]
      /\ faults \in Nat /\ EmptyHanded /\ Held
      /\ rec \in [Contacts -> {"none", "pending", "suppressed", "materialized", "failed", "erased"}]
  BY DEF TypeOK, ChargeInv, Core
<1>00. /\ \A c \in Contacts : Budget(c)
       /\ \A e \in Expanders : pc[e] = "stopped" => Over(cur[e])
       /\ \A e \in Expanders : pc[e] = "erased" => rec[cur[e]] = "erased"
  BY DEF ChargeInv, Core, Hands
<1>a. ASSUME NEW e \in Expanders, ClaimActiveBroadcasts(e) \/ SuppressedForTenant(e) \/ Save(e)
      PROVE  ChargeInv'
  <2>1. /\ UNCHANGED <<status, rec, leased, tries, batch, cur, charges, lapses, faults>>
        /\ \E p : pc' = [pc EXCEPT ![e] = p] /\ \/ pc[e] = "idle" /\ p = "mark"
                                                \/ pc[e] = "check" /\ p = "next"
                                                \/ pc[e] = "render" /\ p = "insert"
    BY <1>a, <1>0 DEF ClaimActiveBroadcasts, SuppressedForTenant, Save
  <2>2. EmptyHanded'
    BY <2>1, <1>0 DEF EmptyHanded
  <2>3. ASSUME NEW c \in Contacts PROVE Budget(c)'
    <3>1. OnlyHis(e) /\ Forward(c) /\ batch'[e] = batch[e]
      BY <2>1, <1>0 DEF OnlyHis, Forward
    <3>2. charges'[c] = charges[c] /\ Credit(c)' >= Credit(c)
      BY <2>1, <1>0, CreditIsCounted DEF Credit
    <3>3. Waits(e, c)' => Waits(e, c)
      BY <2>1, <1>0 DEF Waits, InHand
    <3>4. QED
      BY <3>1, <3>2, <3>3, <1>00, PutDown
  <2>4. QED
    BY <2>2, <2>3 DEF ChargeInv
<1>b. ASSUME NEW e \in Expanders, MarkBroadcastExpanding(e) \/ SnapshotBroadcastBatch(e)
                                  \/ HasPendingBroadcastRecipients(e) \/ TryCompleteBroadcast(e)
      PROVE  ChargeInv'
  <2>1. /\ UNCHANGED <<leased, tries, charges, lapses, faults>> /\ batch[e] = {}
        /\ pc' = [pc EXCEPT ![e] = pc'[e]] /\ batch' = [batch EXCEPT ![e] = {}]
        /\ cur' = [cur EXCEPT ![e] = cur'[e]]
    <3>1. batch[e] = {}
      BY <1>b, <1>0 DEF EmptyHanded, MarkBroadcastExpanding, SnapshotBroadcastBatch, HasPendingBroadcastRecipients, TryCompleteBroadcast
    <3>2. UNCHANGED <<leased, tries, charges, lapses, faults>>
      BY <1>b DEF MarkBroadcastExpanding, SnapshotBroadcastBatch, HasPendingBroadcastRecipients, TryCompleteBroadcast
    <3>3. (\E p : pc' = [pc EXCEPT ![e] = p]) /\ (batch' = batch \/ batch' = [batch EXCEPT ![e] = {}])
          /\ (cur' = cur \/ cur' = [cur EXCEPT ![e] = 0])
      BY <1>b DEF MarkBroadcastExpanding, SnapshotBroadcastBatch, HasPendingBroadcastRecipients, TryCompleteBroadcast, Return
    <3>4. QED
      BY <3>1, <3>2, <3>3, <1>0
  <2>2. EmptyHanded'
    BY <2>1, <1>0 DEF EmptyHanded
  <2>3. status' \in Active => status \in Active
    BY <1>b DEF MarkBroadcastExpanding, SnapshotBroadcastBatch, HasPendingBroadcastRecipients, TryCompleteBroadcast, Active
  <2>4. ASSUME NEW c \in Contacts PROVE rec'[c] \in {"none", "pending"} => rec[c] \in {"none", "pending"}
    <3>1. rec' = rec \/ rec' = [d \in Contacts |-> IF d \in NextBatch /\ rec[d] = "none" THEN "pending" ELSE rec[d]]
      BY <1>b DEF MarkBroadcastExpanding, SnapshotBroadcastBatch, HasPendingBroadcastRecipients, TryCompleteBroadcast
    <3>2. QED
      BY <3>1
  <2>5. ASSUME NEW c \in Contacts PROVE Budget(c)'
    <3>1. OnlyHis(e) /\ Forward(c) /\ c \notin batch[e] /\ c \notin batch'[e]
      BY <2>1, <2>3, <2>4, <1>0 DEF OnlyHis, Forward
    <3>2. charges'[c] = charges[c] /\ Credit(c)' >= Credit(c)
      BY <2>1, <1>0, CreditIsCounted DEF Credit
    <3>3. ~Waits(e, c)'
      BY <3>1 DEF Waits
    <3>4. QED
      BY <3>1, <3>2, <3>3, <1>00, PutDown
  <2>6. QED
    BY <2>2, <2>5 DEF ChargeInv
<1>c. ASSUME NEW e \in Expanders, ClaimPendingBroadcastRecipients(e) PROVE ChargeInv'
  <2>1. PICK B \in SUBSET Claimable :
          /\ pc[e] = "claim" /\ leased' = leased \cup B /\ batch' = [batch EXCEPT ![e] = B]
          /\ pc' = [pc EXCEPT ![e] = IF B = {} THEN "pending" ELSE "check"]
          /\ (~Open => B = {})
          /\ UNCHANGED <<status, rec, tries, cur, charges, lapses, faults>>
    BY <1>c DEF ClaimPendingBroadcastRecipients
  <2>2. EmptyHanded'
    BY <2>1, <1>0 DEF EmptyHanded
  <2>3. batch[e] = {} /\ OnlyHis(e)
    BY <2>1, <1>0 DEF EmptyHanded, OnlyHis
  <2>4. ASSUME NEW c \in Contacts PROVE Budget(c)'
    <3>1. charges'[c] = charges[c] /\ Credit(c)' >= Credit(c) /\ Credit(c)' = Credit(c)
      BY <2>1, <1>0, CreditIsCounted DEF Credit
    <3>2. CASE c \notin B
      <4>1. Forward(c) /\ c \notin batch[e] /\ c \notin batch'[e]
        BY <2>1, <2>3, <3>2, <1>0 DEF Forward
      <4>2. ~Waits(e, c)'
        BY <4>1 DEF Waits
      <4>3. QED
        BY <4>1, <4>2, <3>1, <2>3, <1>00, PutDown
    <3>3. CASE c \in B
      <4>1. rec[c] = "pending" /\ c \notin leased /\ status \in Active
        BY <2>1, <3>3 DEF Claimable, Open
      <4>2. Free(c)
        BY <4>1 DEF Free
      <4>3. c \in leased' /\ c \in batch'[e]
        BY <2>1, <3>3, <1>0
      <4>4. ~Free(c)'
        BY <4>3 DEF Free, InUse
      <4>5. \A f \in Expanders \ {e} : Waits(f, c)' <=> Waits(f, c)
        BY <2>3 DEF Waits, OnlyHis
      <4>6. /\ IsFiniteSet(Waiting(c)) /\ charges[c] + Cardinality(Waiting(c)) + 1 <= 1 + Credit(c)
        BY <4>2, <1>00 DEF Budget
      <4>7. /\ IsFiniteSet(Waiting(c)') /\ Cardinality(Waiting(c)') \in Nat /\ Cardinality(Waiting(c)) \in Nat
            /\ Cardinality(Waiting(c)') <= Cardinality(Waiting(c)) + 1
        BY <4>5, <4>6, WaitingMoves
      <4>8. charges'[c] + Cardinality(Waiting(c)') + 0 <= 1 + Credit(c)'
        BY <4>6, <4>7, <3>1, CreditIsCounted
      <4>9. QED
        BY <4>4, <4>7, <4>8 DEF Budget
    <3>4. QED
      BY <3>2, <3>3
  <2>5. QED
    BY <2>2, <2>4 DEF ChargeInv
<1>d. ASSUME NEW e \in Expanders, MarkBroadcastFailed(e) \/ Refuse(e) PROVE ChargeInv'
  <2>1. /\ UNCHANGED <<rec, leased, tries, charges, lapses, faults>>
        /\ pc[e] \in {"check", "admit"} /\ pc'[e] \in {"idle", "pending"}
        /\ pc' = [pc EXCEPT ![e] = pc'[e]] /\ batch' = [batch EXCEPT ![e] = {}]
        /\ cur' = [cur EXCEPT ![e] = 0] /\ (status' \in Active => status \in Active)
    BY <1>d, <1>0 DEF MarkBroadcastFailed, Refuse, Return, LeaveBatch, Active
  <2>2. EmptyHanded'
    BY <2>1, <1>0 DEF EmptyHanded
  <2>3. ASSUME NEW c \in Contacts PROVE Budget(c)'
    <3>1. OnlyHis(e) /\ Forward(c) /\ c \notin batch'[e]
      BY <2>1, <1>0 DEF OnlyHis, Forward
    <3>2. charges'[c] = charges[c] /\ Credit(c)' >= Credit(c)
      BY <2>1, <1>0, CreditIsCounted DEF Credit
    <3>3. ~Waits(e, c)' /\ (c \in batch[e] => Waits(e, c))
      BY <2>1, <3>1 DEF Waits, InHand
    <3>4. QED
      BY <3>1, <3>2, <3>3, <1>00, PutDown
  <2>4. QED
    BY <2>2, <2>3 DEF ChargeInv
<1>e. ASSUME NEW e \in Expanders, TakeRecipient(e) PROVE ChargeInv'
  <2>1. /\ UNCHANGED <<status, leased, tries, charges, lapses, faults>> /\ pc[e] = "next"
        /\ \/ /\ batch[e] = {} /\ rec' = rec
              /\ pc' = [pc EXCEPT ![e] = "pending"] /\ batch' = [batch EXCEPT ![e] = {}]
              /\ cur' = [cur EXCEPT ![e] = 0]
           \/ \E d \in batch[e] :
                \/ /\ rec' = MarkSuppressed(d) \/ rec' = MarkMaterialized(d)
                   /\ pc' = [pc EXCEPT ![e] = "next"] /\ batch' = [batch EXCEPT ![e] = batch[e] \ {d}]
                   /\ cur' = [cur EXCEPT ![e] = 0]
                \/ /\ rec' = rec /\ batch' = batch
                   /\ pc' = [pc EXCEPT ![e] = "admit"] /\ cur' = [cur EXCEPT ![e] = d]
    BY <1>e, <1>0 DEF TakeRecipient, LeaveBatch, Continue
  <2>2. EmptyHanded'
    BY <2>1, <1>0 DEF EmptyHanded
  <2>3. ASSUME NEW c \in Contacts PROVE Budget(c)'
    <3>1. OnlyHis(e) /\ batch'[e] \subseteq batch[e] /\ pc'[e] \in {"pending", "next", "admit"}
      BY <2>1, <1>0 DEF OnlyHis
    <3>2. rec'[c] \in {"none", "pending"} => rec[c] \in {"none", "pending"}
      <4>1. rec' = rec \/ \E d \in Contacts : rec' = MarkSuppressed(d) \/ rec' = MarkMaterialized(d)
        BY <2>1, <1>0
      <4>2. QED
        BY <4>1, <1>0 DEF MarkSuppressed, MarkMaterialized
    <3>3. Forward(c)
      BY <2>1, <3>2 DEF Forward
    <3>4. charges'[c] = charges[c] /\ Credit(c)' >= Credit(c)
      BY <2>1, <1>0, CreditIsCounted DEF Credit
    <3>5. (Waits(e, c)' => Waits(e, c)) /\ (c \in batch[e] => Waits(e, c))
      BY <2>1, <3>1 DEF Waits, InHand
    <3>6. QED
      BY <3>1, <3>3, <3>4, <3>5, <1>00, PutDown
  <2>4. QED
    BY <2>2, <2>3 DEF ChargeInv
<1>f. ASSUME NEW e \in Expanders, Admit(e) PROVE ChargeInv'
  <2>1. /\ UNCHANGED <<status, rec, leased, tries, batch, cur, lapses, faults>> /\ pc[e] = "admit"
        /\ charges' = [charges EXCEPT ![cur[e]] = charges[cur[e]] + 1]
        /\ pc' = [pc EXCEPT ![e] = "render"]
    BY <1>f DEF Admit
  <2>2. EmptyHanded'
    BY <2>1, <1>0 DEF EmptyHanded
  <2>3. cur[e] \in batch[e] /\ cur[e] \in Contacts
    BY <2>1, <1>0 DEF Held
  <2>4. ASSUME NEW c \in Contacts PROVE Budget(c)'
    <3>1. OnlyHis(e) /\ Forward(c) /\ batch'[e] = batch[e]
      BY <2>1, <1>0 DEF OnlyHis, Forward
    <3>2. Credit(c)' = Credit(c) /\ Credit(c) \in Nat /\ Credit(c)' >= Credit(c)
      BY <2>1, <1>0, CreditIsCounted DEF Credit
    <3>3. CASE c # cur[e]
      <4>1. charges'[c] = charges[c]
        BY <2>1, <3>3, <1>0
      <4>2. Waits(e, c)' => Waits(e, c)
        BY <2>1, <3>3, <1>0 DEF Waits
      <4>3. QED
        BY <4>1, <4>2, <3>1, <3>2, <1>00, PutDown
    <3>4. CASE c = cur[e]
      <4>1. charges'[c] = charges[c] + 1 /\ charges[c] \in Nat
        BY <2>1, <3>4, <1>0
      <4>2. Waits(e, c) /\ ~Waits(e, c)'
        BY <2>1, <2>3, <3>4, <1>0 DEF Waits, InHand
      <4>3. \A f \in Expanders \ {e} : Waits(f, c)' <=> Waits(f, c)
        BY <3>1 DEF Waits, OnlyHis
      <4>4. IsFiniteSet(Waiting(c)) /\ charges[c] + Cardinality(Waiting(c)) + (IF Free(c) THEN 1 ELSE 0) <= 1 + Credit(c)
        BY <1>00 DEF Budget
      <4>5. /\ IsFiniteSet(Waiting(c)') /\ Cardinality(Waiting(c)') \in Nat /\ Cardinality(Waiting(c)) \in Nat
            /\ Cardinality(Waiting(c)') = Cardinality(Waiting(c)) - 1
        BY <4>2, <4>3, <4>4, WaitingMoves
      <4>6. Free(c)' => Free(c)
        BY <3>1, FreedByItsHolder
      <4>7. charges'[c] + Cardinality(Waiting(c)') + (IF Free(c)' THEN 1 ELSE 0) <= 1 + Credit(c)'
        BY <4>1, <4>4, <4>5, <4>6, <3>2
      <4>8. QED
        BY <4>5, <4>7 DEF Budget
    <3>5. QED
      BY <3>3, <3>4
  <2>5. QED
    BY <2>2, <2>4 DEF ChargeInv
<1>g. ASSUME NEW e \in Expanders, RecordBroadcastRecipientFailure(e) PROVE ChargeInv'
  <2>1. /\ UNCHANGED <<status, leased, charges, lapses, faults>> /\ pc[e] = "render"
        /\ IF rec[cur[e]] = "pending"
           THEN /\ tries' = [tries EXCEPT ![cur[e]] = tries[cur[e]] + 1]
                /\ rec' = [rec EXCEPT ![cur[e]] = AfterFailure(cur[e])]
           ELSE UNCHANGED <<tries, rec>>
        /\ pc' = [pc EXCEPT ![e] = "next"] /\ batch' = [batch EXCEPT ![e] = batch[e] \ {cur[e]}]
        /\ cur' = [cur EXCEPT ![e] = 0]
    BY <1>g DEF RecordBroadcastRecipientFailure, Continue
  <2>2. EmptyHanded'
    BY <2>1, <1>0 DEF EmptyHanded
  <2>3. cur[e] \in batch[e] /\ cur[e] \in Contacts /\ rec[cur[e]] # "none"
    BY <2>1, <1>0 DEF Held
  <2>4. ASSUME NEW c \in Contacts PROVE Budget(c)'
    <3>1. OnlyHis(e) /\ batch'[e] = batch[e] \ {cur[e]}
      BY <2>1, <1>0 DEF OnlyHis
    <3>2. rec'[c] \in {"none", "pending"} => rec[c] \in {"none", "pending"}
      BY <2>1, <2>3, <1>0 DEF AfterFailure
    <3>3. Forward(c)
      BY <2>1, <3>2 DEF Forward
    <3>4. charges'[c] = charges[c] /\ tries[c] \in Nat /\ lapses[c] \in Nat /\ faults \in Nat
      BY <2>1, <1>0
    <3>5. tries'[c] = tries[c] \/ tries'[c] = tries[c] + 1
      BY <2>1, <2>3, <1>0
    <3>6. Credit(c)' >= Credit(c)
      BY <3>4, <3>5, <2>1 DEF Credit
    <3>7. (Waits(e, c)' => Waits(e, c)) /\ (c # cur[e] => (c \in batch[e] <=> c \in batch'[e]))
      BY <2>1, <3>1, <1>0 DEF Waits, InHand
    <3>8. CASE c # cur[e]
      BY <3>1, <3>3, <3>4, <3>6, <3>7, <3>8, <1>00, PutDown
    <3>9. CASE c = cur[e] /\ rec[c] = "pending"
      <4>1. tries'[c] = tries[c] + 1
        BY <2>1, <3>9, <1>0
      <4>2. Credit(c)' >= Credit(c) + 1
        BY <4>1, <3>4, <2>1 DEF Credit
      <4>3. QED
        BY <4>2, <3>1, <3>3, <3>4, <3>6, <3>7, <1>00, PutDown
    <3>10. CASE c = cur[e] /\ rec[c] # "pending"
      <4>1. ~Free(c)'
        BY <2>1, <2>3, <3>10 DEF Free
      <4>2. QED
        BY <4>1, <3>1, <3>3, <3>4, <3>6, <3>7, <1>00, PutDown
    <3>11. QED
      BY <3>8, <3>9, <3>10
  <2>5. QED
    BY <2>2, <2>4 DEF ChargeInv
<1>h. ASSUME NEW e \in Expanders, InsertMessage(e) PROVE ChargeInv'
  <2>1. /\ UNCHANGED <<status, leased, tries, charges, lapses, faults>> /\ pc[e] = "insert"
        /\ \/ /\ rec' = [rec EXCEPT ![cur[e]] = "materialized"] \/ rec' = MarkMaterialized(cur[e])
              /\ pc' = [pc EXCEPT ![e] = "next"] /\ batch' = [batch EXCEPT ![e] = batch[e] \ {cur[e]}]
              /\ cur' = [cur EXCEPT ![e] = 0]
           \/ /\ UNCHANGED <<rec, batch, cur>>
              /\ pc' = [pc EXCEPT ![e] = "erased"] \/ pc' = [pc EXCEPT ![e] = "stopped"]
    <3>1. Verdict(cur[e]) \in {"insert", "conflict", "erased", "stopped"}
      BY DEF Verdict
    <3>2. CASE Verdict(cur[e]) = "insert"
      BY <1>h, <3>2 DEF InsertMessage, Continue
    <3>3. CASE Verdict(cur[e]) = "conflict"
      BY <1>h, <3>3 DEF InsertMessage, Continue
    <3>4. CASE Verdict(cur[e]) \in {"erased", "stopped"}
      BY <1>h, <3>4 DEF InsertMessage
    <3>5. QED
      BY <3>1, <3>2, <3>3, <3>4
  <2>2. EmptyHanded'
    BY <2>1, <1>0 DEF EmptyHanded
  <2>3. cur[e] \in batch[e] /\ cur[e] \in Contacts /\ rec[cur[e]] # "none"
    BY <2>1, <1>0 DEF Held
  <2>4. ASSUME NEW c \in Contacts PROVE Budget(c)'
    <3>1. OnlyHis(e) /\ batch'[e] \subseteq batch[e] /\ batch[e] \subseteq batch'[e] \cup {cur[e]}
      BY <2>1, <1>0 DEF OnlyHis
    <3>2. Forward(c)
      BY <2>1, <2>3, <1>0 DEF Forward, MarkMaterialized
    <3>3. charges'[c] = charges[c] /\ Credit(c)' >= Credit(c)
      BY <2>1, <1>0, CreditIsCounted DEF Credit
    <3>4. Waits(e, c)' => Waits(e, c)
      BY <2>1, <3>1, <1>0 DEF Waits, InHand
    <3>5. (c \in batch[e] /\ c \notin batch'[e]) => ~Free(c)'
      <4>1. (c \in batch[e] /\ c \notin batch'[e]) => c = cur[e] /\ rec'[c] \notin {"none", "pending"}
        BY <2>1, <2>3, <3>1, <1>0 DEF MarkMaterialized
      <4>2. QED
        BY <4>1 DEF Free
    <3>6. QED
      BY <3>1, <3>2, <3>3, <3>4, <3>5, <1>00, PutDown
  <2>5. QED
    BY <2>2, <2>4 DEF ChargeInv
<1>i. ASSUME NEW e \in Expanders, DeleteFile(e) PROVE ChargeInv'
  <2>1. /\ UNCHANGED <<status, rec, leased, tries, charges, lapses, faults>> /\ pc[e] \in {"erased", "stopped"}
        /\ cur' = [cur EXCEPT ![e] = 0]
        /\ \/ pc' = [pc EXCEPT ![e] = "next"] /\ batch' = [batch EXCEPT ![e] = batch[e] \ {cur[e]}]
           \/ pc' = [pc EXCEPT ![e] = "pending"] /\ batch' = [batch EXCEPT ![e] = {}]
    BY <1>i DEF DeleteFile, Continue, LeaveBatch
  <2>2. EmptyHanded'
    BY <2>1, <1>0 DEF EmptyHanded
  <2>3. status' \notin Active \/ rec'[cur[e]] \notin {"none", "pending"}
    BY <2>1, <1>00 DEF Over
  <2>4. ASSUME NEW c \in Contacts PROVE Budget(c)'
    <3>1. OnlyHis(e) /\ Forward(c) /\ batch'[e] \subseteq batch[e] /\ pc'[e] \in {"next", "pending"}
      BY <2>1, <1>0 DEF OnlyHis, Forward
    <3>2. charges'[c] = charges[c] /\ Credit(c)' >= Credit(c)
      BY <2>1, <1>0, CreditIsCounted DEF Credit
    <3>3. Waits(e, c)' => Waits(e, c)
      BY <2>1, <3>1, <1>0 DEF Waits, InHand
    <3>4. (c \in batch[e] /\ ~Waits(e, c)) => ~Free(c)'
      BY <2>3 DEF Waits, Free
    <3>5. QED
      BY <3>1, <3>2, <3>3, <3>4, <1>00, PutDown
  <2>5. QED
    BY <2>2, <2>4 DEF ChargeInv
<1>j. ASSUME NEW e \in Expanders, Fails(e) PROVE ChargeInv'
  <2>1. /\ UNCHANGED <<status, rec, leased, tries, charges, lapses>> /\ faults' = faults + 1
        /\ cur' = [cur EXCEPT ![e] = 0]
        /\ \/ (pc' = [pc EXCEPT ![e] = "idle"] \/ pc' = [pc EXCEPT ![e] = "pending"]) /\ batch' = [batch EXCEPT ![e] = {}]
           \/ pc' = [pc EXCEPT ![e] = "next"] /\ \E d : batch' = [batch EXCEPT ![e] = batch[e] \ {d}] /\ (d = cur[e] \/ pc[e] = "next")
    BY <1>j DEF Fails, Return, LeaveBatch, Continue
  <2>2. EmptyHanded'
    BY <2>1, <1>0 DEF EmptyHanded
  <2>3. ASSUME NEW c \in Contacts PROVE Budget(c)'
    <3>1. OnlyHis(e) /\ Forward(c) /\ batch'[e] \subseteq batch[e] /\ pc'[e] \in {"next", "pending", "idle"}
      BY <2>1, <1>0 DEF OnlyHis, Forward
    <3>2. charges'[c] = charges[c] /\ Credit(c)' >= Credit(c) + 1 /\ Credit(c)' >= Credit(c)
      BY <2>1, <1>0 DEF Credit
    <3>3. Waits(e, c)' => Waits(e, c)
      BY <2>1, <3>1, <1>0 DEF Waits, InHand
    <3>4. QED
      BY <3>1, <3>2, <3>3, <1>00, PutDown
  <2>4. QED
    BY <2>2, <2>3 DEF ChargeInv
<1>k. ASSUME NEW d \in Contacts, SetSuppression(d) \/ FindBroadcastSnapshots(d) \/ DeleteSubjectData(d) \/ LeaseExpires(d)
      PROVE  ChargeInv'
  <2>1. /\ UNCHANGED <<status, tries, pc, batch, cur, charges, faults>>
        /\ rec' = rec \/ rec' = Erased(d)
        /\ \/ leased' = leased /\ lapses' = lapses
           \/ /\ leased' = leased \ {d}
              /\ (InUse(d) /\ lapses' = [lapses EXCEPT ![d] = lapses[d] + 1]) \/ (~InUse(d) /\ lapses' = lapses)
    BY <1>k DEF SetSuppression, FindBroadcastSnapshots, DeleteSubjectData, LeaseExpires
  <2>2. EmptyHanded'
    BY <2>1, <1>0 DEF EmptyHanded
  <2>3. ASSUME NEW c \in Contacts PROVE Budget(c)'
    <3>1. rec'[c] \in {"none", "pending"} => rec[c] \in {"none", "pending"}
      BY <2>1, <1>0 DEF Erased
    <3>2. InUse(c)' <=> InUse(c)
      BY <2>1 DEF InUse
    <3>3. charges'[c] = charges[c] /\ lapses[c] \in Nat /\ tries[c] \in Nat /\ faults \in Nat
          /\ (lapses'[c] = lapses[c] \/ lapses'[c] = lapses[c] + 1)
      BY <2>1, <1>0
    <3>4. Credit(c)' >= Credit(c)
      BY <3>3, <2>1 DEF Credit
    <3>5. Free(c)' => Free(c) \/ Credit(c)' >= Credit(c) + 1
      <4>1. CASE c \in leased => c \in leased'
        BY <4>1, <3>1, <3>2, <2>1 DEF Free
      <4>2. CASE c \in leased /\ c \notin leased' /\ InUse(c)
        <5>1. lapses'[c] = lapses[c] + 1
          BY <4>2, <2>1, <1>0
        <5>2. QED
          BY <5>1, <3>3, <2>1 DEF Credit
      <4>3. CASE ~InUse(c)
        BY <4>3, <3>1, <2>1 DEF Free
      <4>4. QED
        BY <4>1, <4>2, <4>3
    <3>6. QED
      BY <3>3, <3>4, <3>5, <2>1, <1>00, HandsStill
  <2>4. QED
    BY <2>2, <2>3 DEF ChargeInv
<1>l. ASSUME CancelBroadcast \/ RescheduleBroadcast \/ ComesDue \/ UNCHANGED vars PROVE ChargeInv'
  <2>1. /\ UNCHANGED <<rec, leased, tries, pc, batch, cur, charges, lapses, faults>>
        /\ (status' \in Active => status \in Active)
    BY <1>l DEF CancelBroadcast, RescheduleBroadcast, ComesDue, vars, Active
  <2>2. EmptyHanded'
    BY <2>1, <1>0 DEF EmptyHanded
  <2>3. ASSUME NEW c \in Contacts PROVE Budget(c)'
    <3>1. charges'[c] = charges[c] /\ Credit(c)' >= Credit(c)
      BY <2>1, <1>0, CreditIsCounted DEF Credit
    <3>2. Free(c)' => Free(c)
      BY <2>1 DEF Free, InUse
    <3>3. QED
      BY <3>1, <3>2, <2>1, <1>00, HandsStill
  <2>4. QED
    BY <2>2, <2>3 DEF ChargeInv
<1> QED BY <1>a, <1>b, <1>c, <1>d, <1>e, <1>f, <1>g, <1>h, <1>i, <1>j, <1>k, <1>l DEF Next, Step

(* Of ClaimPendingBroadcastRecipients and admit: the lease keeps a recipient *)
(* with one expander, so its token is taken once, and once more only for a   *)
(* counted failure, a claim that ran out in use, or a crash or failing call, *)
(* for any number of expanders that overlap.                                *)
THEOREM RecipientsChargedOnce == Spec => []ChargedOnce
<1>1. Init => ChargeInv
  <2> SUFFICES ASSUME Init PROVE ChargeInv
    OBVIOUS
  <2>1. EmptyHanded
    BY DEF Init, EmptyHanded
  <2>2. ASSUME NEW c \in Contacts PROVE Budget(c)
    <3>1. Waiting(c) = {}
      BY DEF Init, Waiting, Waits
    <3>2. IsFiniteSet(Waiting(c)) /\ Cardinality(Waiting(c)) = 0
      BY <3>1, FS_EmptySet
    <3>3. charges[c] = 0 /\ Credit(c) = 0
      BY DEF Init, Credit
    <3>4. QED
      BY <3>2, <3>3 DEF Budget
  <2>3. QED
    BY <2>1, <2>2 DEF ChargeInv
<1>2. TypeOK /\ TypeOK' /\ Core /\ ChargeInv /\ [Next]_vars => ChargeInv'
  BY ChargeStep
<1>3. TypeOK /\ ChargeInv => ChargedOnce
  <2> SUFFICES ASSUME TypeOK, ChargeInv, NEW c \in Contacts
               PROVE  charges[c] <= 1 + tries[c] + lapses[c] + faults
    BY DEF ChargedOnce
  <2>1. /\ IsFiniteSet(Waiting(c))
        /\ charges[c] + Cardinality(Waiting(c)) + (IF Free(c) THEN 1 ELSE 0) <= 1 + Credit(c)
    BY DEF ChargeInv, Budget
  <2>2. Cardinality(Waiting(c)) \in Nat
    BY <2>1, FS_CardinalityType
  <2>3. charges[c] <= 1 + Credit(c)
    BY <2>1, <2>2, CreditIsCounted
  <2>4. tries[c] \in Nat /\ lapses[c] \in Nat /\ faults \in Nat
    BY DEF TypeOK
  <2>5. QED
    BY <2>3, <2>4 DEF Credit
<1>4. QED
  BY <1>1, <1>2, <1>3, Invariance, PTL DEF Spec
=============================================================================
