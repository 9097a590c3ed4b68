----------------------------- MODULE FileStore ------------------------------
(***************************************************************************)
(* Message files on disk: FileStore.Save and its repair of half-written    *)
(* directories, the callers that insert the message row afterwards (the     *)
(* API and the broadcast expander), and the retention purge.               *)
(*                                                                         *)
(* A saver crashes between any two file system calls; a file that was       *)
(* opened and not closed is "part".  Several replicas expand the same       *)
(* recipient, so they save the same id; an API id is random and has one     *)
(* saver.  A directory's age is one bit: older than repairGracePeriod or    *)
(* not.  Following the comment on that constant, a directory somebody is    *)
(* still writing never grows that old.  The files live in a directory       *)
(* number gen, so that a write through a descriptor of a removed directory  *)
(* is lost.                                                                *)
(***************************************************************************)
EXTENDS Integers, FiniteSets

CONSTANTS
  ApiIds,       \* messages accepted by the API, with an attachment
  ExpandedIds,  \* messages the broadcast expander materializes, without one
  Savers,       \* goroutines that save
  MaxGen        \* bound: directories created per id

Ids == ApiIds \cup ExpandedIds

(* The random id of an accepted message is never the id of a broadcast      *)
(* recipient, which its expanded message takes over; neither is empty.      *)
FileStoreAssumption == MaxGen \in Nat /\ ApiIds \cap ExpandedIds = {} /\ "-" \notin Ids

Files == {"raw", "att", "meta"}

VARIABLES
  dir,     \* id -> its message directory
  row,     \* id -> its messages row
  saver,   \* saver -> where its Save or the insert after it stands
  purge,   \* ids whose files the running purge has deleted
  aged     \* ids past their retention window

vars == <<dir, row, saver, purge, aged>>

(* A file is absent, partly written or closed. *)
MessageDir == [there: BOOLEAN, gen: 0..MaxGen, file: [Files -> {"no", "part", "full"}], old: BOOLEAN]
NoFiles == [f \in Files |-> "no"]
Removed(d) == [d EXCEPT !.there = FALSE, !.file = NoFiles, !.old = FALSE]
Made(d) == [d EXCEPT !.there = TRUE, !.gen = @ + 1, !.file = NoFiles, !.old = FALSE]

Idle == [pc |-> "idle", id |-> "-", file |-> "-", gen |-> 0]

Init ==
  /\ dir = [i \in Ids |-> [there |-> FALSE, gen |-> 0, file |-> NoFiles, old |-> FALSE]]
  /\ row = [i \in Ids |-> "none"]
  /\ saver = [s \in Savers |-> Idle]
  /\ purge = {} /\ aged = {}

At(s, pc) == saver[s].pc = pc
Goto(s, pc) == saver' = [saver EXCEPT ![s].pc = pc]
Done(s) == saver' = [saver EXCEPT ![s] = Idle]

-----------------------------------------------------------------------------

(* Load needs the directory, metadata.json that decodes (a part of it does  *)
(* not) and message.eml, whatever its length; attachments are not read.     *)
loadMetadata(i) == dir[i].there /\ dir[i].file["meta"] = "full"
Load(i) == loadMetadata(i) /\ dir[i].file["raw"] # "no"

(* What a save has to write before the record stands. *)
Complete(i) ==
  /\ dir[i].there
  /\ \A f \in Files : dir[i].file[f] = "full" \/ (f = "att" /\ i \in ExpandedIds)

(* The id is valid, the raw message and the timestamp are not empty; a      *)
(* record that fails those checks touches nothing.                         *)
Save(s) ==
  /\ At(s, "idle")
  /\ \E i \in Ids :
       /\ i \notin aged /\ row[i] # "erased"
       /\ i \in ApiIds => ~dir[i].there /\ dir[i].gen = 0 /\ \A t \in Savers : saver[t].id # i
       /\ saver' = [saver EXCEPT ![s] = [Idle EXCEPT !.pc = "mkdir", !.id = i]]
  /\ UNCHANGED <<dir, row, purge, aged>>

MakeDir(s, i) ==
  /\ ~dir[i].there /\ dir[i].gen < MaxGen
  /\ dir' = [dir EXCEPT ![i] = Made(@)]
  /\ saver' = [saver EXCEPT ![s].pc = "create", ![s].file = "raw", ![s].gen = dir[i].gen + 1]

(* The answer ErrRecordExists: the expander takes it for a record an        *)
(* earlier attempt saved and goes on to the insert, the API fails.          *)
RecordExists(s, i) ==
  /\ IF i \in ExpandedIds THEN Goto(s, "insert") ELSE Done(s)

(* Only a directory older than repairGracePeriod that does not load is      *)
(* repaired.                                                               *)
Repairable(i) == dir[i].old /\ ~Load(i)

ensureFreshMessageDir(s) ==
  LET i == saver[s].id
  IN /\ \/ At(s, "mkdir") /\ MakeDir(s, i)
        \/ At(s, "mkdir") /\ dir[i].there /\ Goto(s, "inspect") /\ UNCHANGED dir
        \/ At(s, "inspect") /\ Repairable(i) /\ Goto(s, "repair") /\ UNCHANGED dir
        \/ At(s, "inspect") /\ ~Repairable(i) /\ RecordExists(s, i) /\ UNCHANGED dir
        \/ At(s, "repair") /\ dir' = [dir EXCEPT ![i] = Removed(@)] /\ Goto(s, "remake")
        \/ At(s, "remake") /\ MakeDir(s, i)
        \/ At(s, "remake") /\ dir[i].there /\ RecordExists(s, i) /\ UNCHANGED dir
     /\ UNCHANGED <<row, purge, aged>>

cleanupFailedSave(i) == dir' = [dir EXCEPT ![i] = Removed(@)]

(* O_EXCL creation by path, in whatever directory has that name now. *)
CreateExclusive(s) ==
  LET i == saver[s].id
      f == saver[s].file
  IN \/ /\ dir[i].there /\ dir[i].file[f] = "no"
        /\ dir' = [dir EXCEPT ![i].file[f] = "part", ![i].old = FALSE]
        /\ saver' = [saver EXCEPT ![s].pc = "write", ![s].gen = dir[i].gen]
     \/ cleanupFailedSave(i) /\ Done(s)        \* no directory, disk full

NextFile(s) == IF saver[s].file = "raw" /\ saver[s].id \in ApiIds THEN "att" ELSE "meta"

(* The bytes, then Close: lost when the directory was replaced meanwhile.   *)
WriteAll(s) ==
  LET i == saver[s].id
      f == saver[s].file
  IN \/ /\ dir' = [dir EXCEPT ![i].file[f] = IF dir[i].there /\ dir[i].gen = saver[s].gen
                                              THEN "full" ELSE @]
        /\ saver' = IF f = "meta" THEN [saver EXCEPT ![s].pc = "insert"]
                    ELSE [saver EXCEPT ![s].pc = "create", ![s].file = NextFile(s)]
     \/ cleanupFailedSave(i) /\ Done(s)

WriteFile(s) ==
  /\ \/ At(s, "create") /\ CreateExclusive(s)
     \/ At(s, "write") /\ WriteAll(s)
  /\ UNCHANGED <<row, purge, aged>>

writeStringExclusive(s) == saver[s].file = "raw" /\ WriteFile(s)
writeAttachmentFile(s) == saver[s].file = "att" /\ WriteFile(s)
writeBytesExclusive(s) == saver[s].file = "meta" /\ WriteFile(s)

(* The file that outlived its insert is left alone (an orphan); a          *)
(* recipient erased or cancelled meanwhile takes its file with it.         *)
InsertMessage(s) ==
  LET i == saver[s].id
  IN /\ At(s, "insert") /\ Done(s)
     /\ \/ row[i] = "none" /\ row' = [row EXCEPT ![i] = "queued"] /\ UNCHANGED dir
        \/ UNCHANGED <<row, dir>>                              \* ErrConflict, or the insert failed
        \/ /\ i \in ExpandedIds /\ row[i] = "none"             \* ErrRecipientErased, state conflict
           /\ dir' = [dir EXCEPT ![i] = Removed(@)] /\ row' = [row EXCEPT ![i] = "erased"]
     /\ UNCHANGED <<purge, aged>>

Crash(s) == ~At(s, "idle") /\ Done(s) /\ UNCHANGED <<dir, row, purge, aged>>

(* repairGracePeriod passes over a directory nobody is writing. *)
Age(i) ==
  /\ dir[i].there /\ ~dir[i].old
  /\ \A s \in Savers : saver[s].id # i \/ saver[s].pc \in {"idle", "mkdir", "inspect", "insert"}
  /\ dir' = [dir EXCEPT ![i].old = TRUE]
  /\ UNCHANGED <<row, saver, purge, aged>>

(* Delivery ends, in whatever way. *)
Settle(i) ==
  /\ row[i] = "queued" /\ row' = [row EXCEPT ![i] = "final"]
  /\ UNCHANGED <<dir, saver, purge, aged>>

-----------------------------------------------------------------------------
(* Retention. *)

Delete(i) == dir' = [dir EXCEPT ![i] = Removed(@)]

(* The retention window is days: an expander that retries a message has     *)
(* finished with it long before, while delivery may still be waiting.       *)
Expire(i) ==
  /\ row[i] # "none" /\ i \notin aged /\ \A s \in Savers : saver[s].id # i
  /\ aged' = aged \cup {i}
  /\ UNCHANGED <<dir, row, saver, purge>>

(* Mutant: every expired message, one still to be delivered too. *)
Purgeable_AnyStatus(i) == i \in aged /\ row[i] \in {"queued", "final"}

(* Expired and not queued, processing or retrying; a message whose files    *)
(* cannot be deleted is left out of this cycle.                            *)
Purgeable(i) == i \in aged /\ row[i] = "final"

collectPurgeableIDs(i) ==
  /\ i \notin purge /\ Purgeable(i)
  /\ Delete(i) /\ purge' = purge \cup {i}
  /\ UNCHANGED <<row, saver, aged>>

PurgeExpiredMessages ==
  /\ purge # {}
  /\ row' = [i \in Ids |-> IF i \in purge THEN "purged" ELSE row[i]]
  /\ purge' = {}
  /\ UNCHANGED <<dir, saver, aged>>

(* The purge process dies or its transaction fails. *)
PurgeFails == purge # {} /\ purge' = {} /\ UNCHANGED <<dir, row, saver, aged>>

Next ==
  \/ \E s \in Savers :
       \/ Save(s) \/ ensureFreshMessageDir(s) \/ writeStringExclusive(s)
       \/ writeAttachmentFile(s) \/ writeBytesExclusive(s) \/ InsertMessage(s) \/ Crash(s)
  \/ \E i \in Ids : Age(i) \/ Settle(i) \/ Expire(i) \/ collectPurgeableIDs(i)
  \/ PurgeExpiredMessages \/ PurgeFails

Spec == Init /\ [][Next]_vars

-----------------------------------------------------------------------------

TypeOK ==
  /\ dir \in [Ids -> MessageDir]
  /\ row \in [Ids -> {"none", "queued", "final", "purged", "erased"}]
  /\ purge \subseteq Ids /\ aged \subseteq Ids

(* The API never accepts a message it cannot construct into bytes: a        *)
(* message it queued has all its files, whatever savers, crashes and        *)
(* purges do around it.                                                    *)
AcceptedMailIsOnDisk == \A i \in ApiIds : row[i] = "queued" => Complete(i)

(* A purged row leaves no file behind that nothing could find again,        *)
(* wherever the purge dies.                                                *)
PurgeLeavesNoOrphan == \A i \in Ids : row[i] = "purged" => ~dir[i].there

(* The message directories and the rows agree, whichever step a saver, a     *)
(* purge or the process died at.                                           *)
FilesMatchRows == TypeOK /\ AcceptedMailIsOnDisk /\ PurgeLeavesNoOrphan
=============================================================================
