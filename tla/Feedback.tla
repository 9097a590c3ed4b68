------------------------------ MODULE Feedback ------------------------------
(***************************************************************************)
(* Bounces and complaints of one delivered message: the delivery status     *)
(* notification (DSN) the worker writes for a final failure, the ingestion  *)
(* of reports, their effect on the recipients, and the suppression list.    *)
(*                                                                         *)
(* Reporters retry, so a report may arrive several times and concurrently;  *)
(* each of its recipient groups is one transaction and any may fail.  A     *)
(* report's text is the sequence of its parts and their fields; raw_sha256  *)
(* is the report itself.                                                   *)
(***************************************************************************)
EXTENDS Integers, Sequences, FiniteSets

CONSTANTS
  Procs,          \* ingestion requests in flight
  Recipients,     \* mailboxes of the message's recipients, in order
  Foreign,        \* recipient groups other mail systems report
  maxMIMEParts,
  MaxRequests     \* bound: requests

Mailboxes == {Recipients[i] : i \in DOMAIN Recipients}

FeedbackAssumption ==
  /\ Recipients \in Seq(Mailboxes) /\ Recipients # <<>>
  /\ maxMIMEParts \in Nat /\ maxMIMEParts >= 2      \* a report has two parts
  /\ MaxRequests \in Nat

(* An address as written; Normalize reads the first two forms. *)
Written(form, b) == [box |-> b, form |-> form]
Absent == Written("named", "none")
Normalize(a) == IF a.form \in {"path", "bare"} THEN a.box ELSE "invalid"
stripAngleBrackets(a) == IF a.form = "path" THEN Written("bare", a.box) ELSE a

-----------------------------------------------------------------------------
(* Enhanced status codes: components of the text between dots, -1 for one   *)
(* that is empty, too long, padded or not a number.                        *)

parseStatusComponent(c) == c \in 0..999
ParseEnhancedStatus(s) ==
  Len(s) = 3 /\ s[1] \in {2, 4, 5} /\ \A i \in 1..3 : parseStatusComponent(s[i])
IsTemporary(s) == ParseEnhancedStatus(s) /\ s[1] = 4
IsPermanent(s) == ParseEnhancedStatus(s) /\ s[1] = 5
NoStatus == <<>>
hardBounceEnhancedStatuses == {<<5, 1, 1>>, <<5, 1, 6>>}
(* Mutant: every permanent bounce. *)
QualifiesAsyncHardBounce_Any(s) == IsPermanent(s)

QualifiesAsyncHardBounce(s) == s \in hardBounceEnhancedStatuses

-----------------------------------------------------------------------------
(* The DSN of a final failure.  An attempt is its decision, kind, enhanced  *)
(* status and the recipient refused, if one was.                           *)

NoOne == "none"
classifyKind(kind) ==
  CASE kind = "transfer_permanent" -> "permanent"
    [] kind \in {"dns_not_found", "dns_failure"} -> "dns"
    [] kind = "dns_null_mx" -> "null_mx"
    [] kind = "invalid_request" -> "invalid"
    [] kind = "context" -> "aborted"
    [] OTHER -> "unknown"

failureFromAttempt(at, exhausted) ==
  [class |-> IF exhausted THEN "exhausted" ELSE classifyKind(at.kind),
   status |-> IF ParseEnhancedStatus(at.status) THEN at.status ELSE NoStatus,
   to |-> at.to]

(* Only a lifecycle whose last attempt fits its status is a failure. *)
Classify(at, status) ==
  IF \/ status = "failed" /\ at.decision = "terminal_failure"
     \/ status = "exhausted" /\ at.decision = "retry"
  THEN {failureFromAttempt(at, status = "exhausted")} ELSE {}

Eligible(f) == f.class \in {"permanent", "exhausted", "dns", "null_mx"}
ShouldGenerate(mailFrom, f) == mailFrom \notin {"<>", ""} /\ Eligible(f)

(* Mutant: everyone is reported with the one refusal's status. *)
recipientStatusFor_All(f, r) == [action |-> "failed", to |-> r, status |-> f.status]

(* The transaction ends at the first refusal, so the others are not blamed. *)
recipientStatusFor(f, r) ==
  [action |-> "failed", to |-> r,
   status |-> IF f.to \in {NoOne, r.box} THEN f.status ELSE NoStatus]
RecipientStatuses(f, rcpts) == [i \in DOMAIN rcpts |-> recipientStatusFor(f, rcpts[i])]

Part(type, groups) == [type |-> type, groups |-> groups]
writeDeliveryStatusPart(statuses) ==
  Part("delivery-status", [i \in DOMAIN statuses |->
         [statuses[i] EXCEPT !.to = stripAngleBrackets(@)]])

(* No report without a recipient. *)
Generate(f, rcpts) ==
  IF rcpts = <<>> THEN <<>>
  ELSE <<Part("text", <<>>), writeDeliveryStatusPart(RecipientStatuses(f, rcpts))>>

-----------------------------------------------------------------------------
(* Reading a report. *)

Bounded(s) == SubSeq(s, 1, IF Len(s) < maxMIMEParts THEN Len(s) ELSE maxMIMEParts)
parseDeliveryStatus(part) == Bounded(part.groups)

(* Every delivery-status part; a report without one is not a DSN. *)
ParseDSN(report) ==
  LET out[i \in 0..Len(Bounded(report))] ==
        IF i = 0 THEN <<>>
        ELSE IF report[i].type = "delivery-status" THEN out[i - 1] \o parseDeliveryStatus(report[i])
        ELSE out[i - 1]
  IN out[Len(Bounded(report))]

(* Action and status must agree; anything else is history only. *)
ClassifyDSN(g) ==
  CASE g.action = "failed" /\ IsPermanent(g.status) -> "bounce_permanent"
    [] g.action = "delayed" /\ IsTemporary(g.status) -> "bounce_temporary"
    [] OTHER -> "bounce_unknown"

FromDSN(g) == [kind |-> ClassifyDSN(g), to |-> g.to, status |-> g.status]
FromComplaint(r) == [kind |-> "complaint", to |-> r, status |-> NoStatus]
HasRecipient(g) == g.to # Absent

(* One item for every group; one without a recipient is skipped. *)
ItemsOf(groups) ==
  LET items[i \in 0..Len(groups)] ==
        IF i = 0 THEN <<>>
        ELSE IF HasRecipient(groups[i]) THEN Append(items[i - 1], FromDSN(groups[i]))
        ELSE items[i - 1]
  IN items[Len(groups)]

-----------------------------------------------------------------------------

VARIABLES
  fstat,   \* mailbox -> recipients.feedback_status
  rows,    \* feedback: <<mailbox, raw>>
  supp,    \* mailbox -> reason of its suppressions row
  events,  \* mailbox -> events appended for it
  req,     \* process -> the items its request has left
  made,    \* history: requests so far
  proof    \* history: <<mailbox, kind, status>> of the reports recorded

vars == <<fstat, rows, supp, events, req, made, proof>>

Idle == [raw |-> <<>>, items |-> <<>>]

Init ==
  /\ fstat = [b \in Mailboxes |-> "none"] /\ rows = {}
  /\ supp = [b \in Mailboxes |-> "none"] /\ events = [b \in Mailboxes |-> <<>>]
  /\ req = [p \in Procs |-> Idle] /\ made = 0 /\ proof = {}

Begin(p) == req[p] = Idle /\ made < MaxRequests /\ made' = made + 1

(* Reports of other systems, and the MailX ones of an attempt that failed   *)
(* at the first recipient or as a whole.                                   *)
Envelope == [i \in DOMAIN Recipients |-> Written("path", Recipients[i])]
Attempts == {[decision |-> "terminal_failure", kind |-> k, status |-> s, to |-> t] :
               k \in {"transfer_permanent", "context"}, s \in {<<5, 1, 1>>, <<5, -1>>},
               t \in {NoOne, Recipients[1]}}
Own == {Generate(f, Envelope) : f \in {g \in UNION {Classify(a, "failed") : a \in Attempts} :
                                         ShouldGenerate("<s>", g)}}
Reports == Own \cup {<<Part("delivery-status", gs)>> : gs \in {<<g>> : g \in Foreign} \cup Foreign \X Foreign}

(* The operator's credential and a message that resolves; a report that is  *)
(* not a DSN changes nothing.                                              *)
resolveMessageID(p, raw, items) == req' = [req EXCEPT ![p] = [raw |-> raw, items |-> items]]

handleIngest(p) ==
  /\ Begin(p)
  /\ \/ \E r \in Reports : resolveMessageID(p, <<r, 0>>, ItemsOf(ParseDSN(r)))
     \/ \E b \in Mailboxes, form \in {"bare", "named"}, at \in {0, made + 1} :
          resolveMessageID(p, <<<<Part("complaint", <<Written(form, b)>>)>>, at>>,
                           <<FromComplaint(Written(form, b))>>)
  /\ UNCHANGED <<fstat, rows, supp, events, proof>>

Target(f) == IF f.kind = "complaint" THEN "complained" ELSE "bounced"
Transitions(b, f) == f.kind \in {"complaint", "bounce_permanent"} /\ fstat[b] # Target(f)
ShouldSuppress(f) ==
  f.kind = "complaint" \/ (f.kind = "bounce_permanent" /\ QualifiesAsyncHardBounce(f.status))

(* Row, status, suppression and event in one transaction; a duplicate and a *)
(* status already reached end it early.                                    *)
ProcessFeedback(p) ==
  LET f == Head(req[p].items)
      b == Normalize(f.to)
      fresh == b \in Mailboxes /\ <<b, req[p].raw>> \notin rows
      moves == fresh /\ Transitions(b, f)
  IN /\ req[p].items # <<>>
     /\ rows' = IF fresh THEN rows \cup {<<b, req[p].raw>>} ELSE rows
     /\ fstat' = IF moves THEN [fstat EXCEPT ![b] = Target(f)] ELSE fstat
     /\ supp' = IF moves /\ ShouldSuppress(f) /\ supp[b] = "none"
                THEN [supp EXCEPT ![b] = IF f.kind = "complaint" THEN "complaint" ELSE "hard_bounce"]
                ELSE supp
     /\ events' = IF moves THEN [events EXCEPT ![b] = Append(@, Target(f))] ELSE events
     /\ proof' = IF fresh THEN proof \cup {<<b, f.kind, f.status>>} ELSE proof
     /\ req' = [req EXCEPT ![p] = IF Len(@.items) = 1 THEN Idle
                                       ELSE [raw |-> @.raw, items |-> Tail(@.items)]]
     /\ UNCHANGED made

(* A transaction fails: 500, and the groups before it stay recorded. *)
IngestFails(p) ==
  /\ req[p].items # <<>> /\ req' = [req EXCEPT ![p] = Idle]
  /\ UNCHANGED <<fstat, rows, supp, events, made, proof>>

(* The first suppression of an address stays. *)
CreateSuppression(b, reason) ==
  supp' = IF supp[b] = "none" THEN [supp EXCEPT ![b] = reason] ELSE supp

handleCreate ==
  /\ made < MaxRequests /\ made' = made + 1
  /\ \E b \in Mailboxes : CreateSuppression(b, "manual")
  /\ UNCHANGED <<fstat, rows, events, req, proof>>

handleDelete ==
  /\ made < MaxRequests /\ made' = made + 1
  /\ \E b \in Mailboxes : supp[b] # "none" /\ supp' = [supp EXCEPT ![b] = "none"]
  /\ UNCHANGED <<fstat, rows, events, req, proof>>

Next ==
  \/ handleCreate \/ handleDelete
  \/ \E p \in Procs : handleIngest(p) \/ ProcessFeedback(p) \/ IngestFails(p)

Spec == Init /\ [][Next]_vars

-----------------------------------------------------------------------------

TypeOK ==
  /\ fstat \in [Mailboxes -> {"none", "bounced", "complained"}]
  /\ supp \in [Mailboxes -> {"none", "manual", "hard_bounce", "complaint"}]
  /\ \A b \in Mailboxes : events[b] \in Seq({"bounced", "complained"})

(* What ParseDSN reads in a report MailX wrote is its recipients, one group *)
(* each and at most maxMIMEParts of them, and when one recipient was        *)
(* refused no other is read as bounced.                                    *)
ReportsReadBack ==
  \A a \in Attempts : \A f \in Classify(a, "failed") : Eligible(f) =>
    LET groups == ParseDSN(Generate(f, Envelope))
    IN /\ [i \in DOMAIN groups |-> Normalize(groups[i].to)] = Bounded(Recipients)
       /\ f.to # NoOne => \A i \in DOMAIN groups :
            ClassifyDSN(groups[i]) = "bounce_permanent" => Normalize(groups[i].to) = f.to

HardProof(b, facts) ==
  \E s \in {<<5, 1, 1>>, <<5, 1, 6>>} : <<b, "bounce_permanent", s>> \in facts

(* Only evidence suppresses: an address is on the list for a bounce or a    *)
(* complaint because a recorded report said so in a way that qualifies, and *)
(* a retried report adds no event beyond the reports recorded.              *)
SuppressionNeedsProof ==
  \A b \in Mailboxes :
    /\ supp[b] = "hard_bounce" => HardProof(b, proof)
    /\ supp[b] = "complaint" => <<b, "complaint", NoStatus>> \in proof
    /\ Len(events[b]) <= Cardinality({r \in rows : r[1] = b})
=============================================================================
