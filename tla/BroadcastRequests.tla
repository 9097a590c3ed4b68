------------------------- MODULE BroadcastRequests -------------------------
(***************************************************************************)
(* Requests that edit a template and requests that accept a broadcast from  *)
(* it, with and without an Idempotency-Key, of one tenant.                  *)
(*                                                                          *)
(* A PATCH of a template is a read, a merge and a write of all four fields. *)
(* A broadcast copies the template it read before the key is claimed; its   *)
(* row and the completion of the key are one transaction.  A content is a   *)
(* pair of bodies, each "blank" (no character other than white space) or    *)
(* "full".  Name, subject and variables are left out, except that they may  *)
(* be refused.                                                              *)
(***************************************************************************)
EXTENDS Integers, Sequences, FiniteSets

CONSTANTS
  Procs,            \* requests in progress
  Fingerprints,     \* payloads a client may send with its one key
  MaxRequests

BroadcastRequestsAssumption == MaxRequests \in Nat /\ "none" \notin Fingerprints

VARIABLES
  tmpl,             \* the template's row, or NoTemplate
  key,              \* the idempotency key's row, or NoKey
  broadcasts,       \* broadcasts accepted, in order
  req,              \* request -> its progress
  made,
  answers           \* <<fingerprint, broadcast>> answered under the key

vars == <<tmpl, key, broadcasts, req, made, answers>>

Body == {"blank", "full"}
Template == [text: Body, html: Body]
NoTemplate == [text |-> "none", html |-> "none"]
NoKey == [fp |-> "none", status |-> "none", res |-> 0, stale |-> FALSE]
Broadcast == [content: Template, key: {"none"} \cup Fingerprints]
Idle == [pc |-> "idle", content |-> NoTemplate, fp |-> "none"]

Init ==
  /\ tmpl = [text |-> "full", html |-> "blank"] /\ key = NoKey /\ broadcasts = <<>>
  /\ req = [p \in Procs |-> Idle] /\ made = 0 /\ answers = {}

Goto(p, pc, content, fp) == req' = [req EXCEPT ![p] = [pc |-> pc, content |-> content, fp |-> fp]]
Done(p) == req' = [req EXCEPT ![p] = Idle]
Begin(p) == req[p].pc = "idle" /\ made < MaxRequests /\ made' = made + 1
At(p, pc) == req[p].pc = pc

-----------------------------------------------------------------------------
(* Templates. *)

(* At least one body has content. *)
Validate(t) == t.text = "full" \/ t.html = "full"

CreateTemplate(t) == tmpl' = t

handleCreateTemplate(p) ==
  /\ Begin(p) /\ tmpl = NoTemplate
  /\ \E t \in Template : Validate(t) /\ CreateTemplate(t)
  /\ UNCHANGED <<key, broadcasts, req, answers>>

GetTemplate == tmpl

(* The fields a PATCH names; the others come from the row. *)
Patches == {[text |-> t, html |-> h] : t, h \in Body \cup {"none"}}
Merged(cur, patch) ==
  [f \in {"text", "html"} |-> IF patch[f] = "none" THEN cur[f] ELSE patch[f]]

(* Mutant: only the named fields are written, the merge is only validated. *)
handleUpdateTemplate_Named(p) ==
  /\ Begin(p) /\ GetTemplate # NoTemplate
  /\ \E patch \in Patches :
       IF Validate(Merged(GetTemplate, patch))
       THEN Goto(p, "update", patch, "none") ELSE UNCHANGED req
  /\ UNCHANGED <<tmpl, key, broadcasts, answers>>

handleUpdateTemplate(p) ==
  /\ Begin(p) /\ GetTemplate # NoTemplate
  /\ \E patch \in Patches :
       IF Validate(Merged(GetTemplate, patch))
       THEN Goto(p, "update", Merged(GetTemplate, patch), "none") ELSE UNCHANGED req
  /\ UNCHANGED <<tmpl, key, broadcasts, answers>>

(* COALESCE keeps a field that is not given; a row deleted meanwhile is     *)
(* not found.                                                              *)
UpdateTemplate(p) ==
  /\ At(p, "update")
  /\ tmpl' = IF tmpl = NoTemplate THEN tmpl ELSE Merged(tmpl, req[p].content)
  /\ Done(p) /\ UNCHANGED <<key, broadcasts, made, answers>>

DeleteTemplate == tmpl' = NoTemplate

handleDeleteTemplate(p) ==
  /\ Begin(p) /\ tmpl # NoTemplate /\ DeleteTemplate
  /\ UNCHANGED <<key, broadcasts, req, answers>>

-----------------------------------------------------------------------------
(* Broadcasts. *)

(* Everything that may be refused is checked before the key is claimed. *)
validateBroadcastRequest == {"refused", "ok"}

handleCreate(p) ==
  /\ Begin(p)
  /\ \E ok \in validateBroadcastRequest, fp \in Fingerprints \cup {"none"} :
       IF ok = "refused" \/ GetTemplate = NoTemplate THEN UNCHANGED req
       ELSE Goto(p, IF fp = "none" THEN "create" ELSE "claim", GetTemplate, fp)
  /\ UNCHANGED <<tmpl, key, broadcasts, answers>>

(* The first request to insert the key owns it; an abandoned claim changes  *)
(* owner.                                                                  *)
Owned == key = NoKey \/ (key.status = "in_progress" /\ key.stale)
ClaimIdempotencyKey(fp) ==
  key' = IF Owned THEN [fp |-> fp, status |-> "in_progress", res |-> 0, stale |-> FALSE] ELSE key

(* A completed key names the broadcast to show again. *)
loadReplay(p) == answers' = answers \cup {<<req[p].fp, key.res>>}

resolveIdempotency(p) ==
  /\ At(p, "claim") /\ ClaimIdempotencyKey(req[p].fp)
  /\ \/ Owned /\ req' = [req EXCEPT ![p].pc = "create"] /\ UNCHANGED answers
     \/ ~Owned /\ key.fp # req[p].fp /\ Done(p) /\ UNCHANGED answers
     \/ /\ ~Owned /\ key.fp = req[p].fp /\ key.status = "in_progress"
        /\ req' = [req EXCEPT ![p].pc = "poll"] /\ UNCHANGED answers
     \/ /\ ~Owned /\ key.fp = req[p].fp /\ key.status = "completed"
        /\ loadReplay(p) /\ Done(p)
  /\ UNCHANGED <<tmpl, broadcasts, made>>

(* The poll waits for a completion, of whatever payload, or times out. *)
pollIdempotencyCompletion(p) ==
  /\ At(p, "poll")
  /\ \/ key.status = "completed" /\ loadReplay(p)
     \/ UNCHANGED answers
  /\ Done(p) /\ UNCHANGED <<tmpl, key, broadcasts, made>>

(* Mutant: the completion does not look at the state of the claim. *)
Completes_Always(p) == TRUE

(* The claim this request completes is still in progress and its own. *)
Completes(p) == req[p].fp = "none" \/ (key.status = "in_progress" /\ key.fp = req[p].fp)

replayIfCompleted(p) ==
  IF key.status = "completed" /\ key.fp = req[p].fp THEN loadReplay(p) ELSE UNCHANGED answers

(* A completion that matches no claim rolls the broadcast back. *)
CreateBroadcast(p) ==
  LET n == Len(broadcasts) + 1 IN
  /\ At(p, "create")
  /\ IF Completes(p)
     THEN /\ broadcasts' = Append(broadcasts, [content |-> req[p].content, key |-> req[p].fp])
          /\ key' = IF req[p].fp = "none" THEN key
                    ELSE [key EXCEPT !.status = "completed", !.res = n]
          /\ answers' = IF req[p].fp = "none" THEN answers ELSE answers \cup {<<req[p].fp, n>>}
     ELSE replayIfCompleted(p) /\ UNCHANGED <<broadcasts, key>>
  /\ Done(p) /\ UNCHANGED <<tmpl, made>>

(* The claim is older than idempotencyStaleAfter. *)
GoesStale ==
  /\ key.status = "in_progress" /\ ~key.stale /\ key' = [key EXCEPT !.stale = TRUE]
  /\ UNCHANGED <<tmpl, broadcasts, req, made, answers>>

(* The database fails, the client goes away or the process dies. *)
Fail(p) == ~At(p, "idle") /\ Done(p) /\ UNCHANGED <<tmpl, key, broadcasts, made, answers>>

-----------------------------------------------------------------------------

Next ==
  \/ GoesStale
  \/ \E p \in Procs :
       \/ handleCreateTemplate(p) \/ handleUpdateTemplate(p) \/ UpdateTemplate(p)
       \/ handleDeleteTemplate(p) \/ handleCreate(p) \/ resolveIdempotency(p)
       \/ pollIdempotencyCompletion(p) \/ CreateBroadcast(p) \/ Fail(p)

Spec == Init /\ [][Next]_vars

-----------------------------------------------------------------------------

(* Types. *)
TypeOK ==
  /\ tmpl \in Template \cup {NoTemplate} /\ broadcasts \in Seq(Broadcast)
  /\ key.status \in {"none", "in_progress", "completed"} /\ made \in 0..MaxRequests

(* Whatever edits race, the stored template and every broadcast taken from  *)
(* it has a body: the PATCH writes the whole merge that emailtemplate       *)
(* Validate accepted, not the two halves of two merges.                    *)
AlwaysABody ==
  /\ tmpl # NoTemplate => Validate(tmpl)
  /\ \A i \in DOMAIN broadcasts : Validate(broadcasts[i].content)

(* One key accepts at most one broadcast, also when its claim is abandoned, *)
(* goes stale and is taken over, and every answer under the key names it.   *)
OneBroadcastPerKey ==
  LET keyed == {i \in DOMAIN broadcasts : broadcasts[i].key # "none"}
  IN Cardinality(keyed) <= 1 /\ \A a \in answers : a[2] \in keyed

(* Requests that race leave whole templates and one broadcast per key. *)
RequestsAreSound == TypeOK /\ AlwaysABody /\ OneBroadcastPerKey
=============================================================================
