------------------------------- MODULE Billing -------------------------------
(***************************************************************************)
(* The paid plan of one organization: checkout, Paystack's webhook, plan    *)
(* reminders, automatic renewal with its charge attempts, and lapsing.     *)
(*                                                                         *)
(* Every replica runs the billing pass; a pass is one step per transaction, *)
(* mail or call to Paystack, and may die between any two.  Paystack's       *)
(* answers may be lost and its webhook comes late, repeatedly or never.    *)
(* One unit of time is RenewalRetrySpacing (12 h): a pass, whose calls time *)
(* out after 15 s, falls inside one unit, and RenewalReconcileAfter is one. *)
(***************************************************************************)
EXTENDS Integers, Sequences, FiniteSets

CONSTANTS
  Replicas,            \* processes running runPlanLapse
  ReminderLead, RenewalChargeWindow, RenewalMinNotice, RenewalRetrySpacing,
  RenewalReconcileAfter, RenewalMaxAttempts,
  planPeriod,
  MaxRequests,         \* bound: the owner's checkouts and changes of auto_renew
  Horizon              \* bound: time

(* A pass falls inside one unit of time, so what a pass may verify is one    *)
(* that a former unit claimed.                                              *)
BillingAssumption ==
  /\ ReminderLead \in Nat /\ planPeriod \in Nat /\ RenewalMaxAttempts \in Nat
  /\ RenewalReconcileAfter \in Nat \ {0}

VARIABLES
  now,
  ten,       \* the tenants row
  att,       \* billing_renewal_attempts
  paid,      \* references in billing_payments
  bank,      \* Paystack: reference -> [plan, state of the transaction]
  pass,      \* replica -> its place in the billing pass
  made       \* history: the owner's requests so far

vars == <<now, ten, att, paid, bank, pass, made>>

Plans == {"free", "plus", "pro"}
PlanFor == [p \in Plans |-> CASE p = "free" -> [price |-> 0, retention |-> 7]
                              [] p = "plus" -> [price |-> 600, retention |-> 30]
                              [] p = "pro" -> [price |-> 2400, retention |-> 90]]
IsPaid(p) == PlanFor[p].price > 0

None == -1
Outcomes == {"unknown", "succeeded", "odd", "failed"}
TenantPlan == [plan: Plans, status: {"active", "lapsed"}, end: Nat, auto: BOOLEAN,
               card: BOOLEAN, remEnd: Nat \cup {None}, remAt: Nat \cup {None},
               remAuto: BOOLEAN, pin: {0, 30, 90}]
RenewalClaim == [end: Nat, n: 1..RenewalMaxAttempts, plan: Plans, at: Nat,
                 status: {"pending", "succeeded", "failed"}]

RenewalReference(end, n) == <<"renew", end, n>>
CheckoutReference(k) == <<"checkout", k, 0>>
RefOf(a) == RenewalReference(att[a].end, att[a].n)
Idle == [pc |-> "idle", at |-> 0, todo |-> {}, a |-> 0, res |-> "unknown"]

(* A plus plan with automatic renewal whose reminder is due. *)
Init ==
  /\ now = 0 /\ att = <<>> /\ paid = {} /\ bank = <<>> /\ made = 0
  /\ ten = [plan |-> "plus", status |-> "active", end |-> ReminderLead, auto |-> TRUE,
            card |-> TRUE, remEnd |-> None, remAt |-> None, remAuto |-> FALSE, pin |-> 0]
  /\ pass = [r \in Replicas |-> Idle]

Goto(r, pc) == pass' = [pass EXCEPT ![r].pc = pc]

-----------------------------------------------------------------------------
(* Checkout and the webhook. *)

(* InitializeTransaction opens a transaction the customer may pay. *)
InitializeTransaction(plan) ==
  LET ref == CheckoutReference(made)
  IN bank' = [b \in DOMAIN bank \cup {ref} |->
                IF b = ref THEN [plan |-> plan, state |-> "ongoing"] ELSE bank[b]]

handleCheckout ==
  /\ made < MaxRequests /\ made' = made + 1
  /\ \E plan \in Plans : IsPaid(plan) /\ InitializeTransaction(plan)
  /\ UNCHANGED <<now, ten, att, paid, pass>>

(* A transaction that is not final at Paystack becomes final. *)
PaystackResolves ==
  /\ \E b \in DOMAIN bank :
       /\ bank[b].state = "ongoing"
       /\ \E s \in {"succeeded", "failed"} : bank' = [bank EXCEPT ![b].state = s]
  /\ UNCHANGED <<now, ten, att, paid, pass, made>>

(* The same active plan is extended from its period end, any other starts   *)
(* now; the reference's row rolls a replay back.                           *)
Extended(plan) ==
  [ten EXCEPT !.plan = plan, !.status = "active",
              !.end = (IF ten.plan = plan /\ ten.status = "active" /\ ten.end > now
                       THEN ten.end ELSE now) + planPeriod]

(* Mutant: a payment is applied without looking for its reference. *)
ApplyPlanPayment_Blind(ref, plan) == ten' = Extended(plan) /\ paid' = paid \cup {ref}

ApplyPlanPayment(ref, plan) ==
  IF ref \in paid THEN UNCHANGED <<ten, paid>>          \* ErrPaymentAlreadyApplied
  ELSE ten' = Extended(plan) /\ paid' = paid \cup {ref}

(* Kept only when the webhook's reusable authorization is saved too. *)
SaveRenewalAuthorization(t) == [t EXCEPT !.card = TRUE]

saveAuthorization(plan) ==
  \/ ten' = Extended(plan)
  \/ ten' = SaveRenewalAuthorization(Extended(plan))

(* An event of another kind, of a smaller amount, or one with a bad         *)
(* signature changes nothing; a replay saves no card.                      *)
handleWebhook ==
  /\ \E ref \in DOMAIN bank :
       /\ bank[ref].state = "succeeded" /\ ref \notin paid
       /\ paid' = paid \cup {ref} /\ saveAuthorization(bank[ref].plan)
  /\ UNCHANGED <<now, att, bank, pass, made>>

(* A change of the setting clears the reminder, so that a fresh one matches. *)
SetAutoRenew(on) ==
  ten' = IF ten.auto = on THEN ten
         ELSE [ten EXCEPT !.auto = on, !.remEnd = None, !.remAt = None, !.remAuto = FALSE]

handleAutoRenew ==
  /\ made < MaxRequests /\ made' = made + 1
  /\ \E on \in BOOLEAN : SetAutoRenew(on)
  /\ UNCHANGED <<now, att, paid, bank, pass>>

-----------------------------------------------------------------------------
(* The pass: reminders. *)

ReminderDue(t) ==
  /\ IsPaid(t.plan) /\ t.status = "active"
  /\ t.end > now /\ t.end <= now + ReminderLead /\ t.remEnd # t.end

(* One UPDATE marks and returns, so one replica sends. *)
ClaimPlanReminders ==
  ten' = [ten EXCEPT !.remEnd = ten.end, !.remAt = now, !.remAuto = ten.auto /\ ten.card]

PendingRenewalAttempts ==
  {a \in DOMAIN att : att[a].status = "pending" /\ att[a].at <= now - RenewalReconcileAfter}

(* The attempts to verify are listed once the reminders are done. *)
ToReconcile == [Idle EXCEPT !.pc = "verify", !.todo = PendingRenewalAttempts]

RunOnce(r) ==
  /\ pass[r].pc = "idle"
  /\ IF ReminderDue(ten)
     THEN /\ ClaimPlanReminders
          /\ pass' = [pass EXCEPT ![r] = [Idle EXCEPT !.pc = "mail", !.at = ten.end]]
     ELSE UNCHANGED ten /\ pass' = [pass EXCEPT ![r] = ToReconcile]
  /\ UNCHANGED <<now, att, paid, bank, made>>

ReleasePlanReminder(end) ==
  ten' = IF ten.remEnd = end
         THEN [ten EXCEPT !.remEnd = None, !.remAt = None, !.remAuto = FALSE] ELSE ten

(* Released when no owner could be told; the release itself may fail. *)
sendReminders(r) ==
  /\ pass[r].pc = "mail"
  /\ ReleasePlanReminder(pass[r].at) \/ UNCHANGED ten
  /\ pass' = [pass EXCEPT ![r] = ToReconcile]
  /\ UNCHANGED <<now, att, paid, bank, made>>

-----------------------------------------------------------------------------
(* The pass: attempts of unknown outcome, then a new charge. *)

(* What Paystack holds under a reference; no record means no charge. *)
Known(ref) == IF ref \in DOMAIN bank THEN bank[ref].state ELSE "failed"

(* A status that is not final is as unknown as a lost answer. *)
classify(s) == IF s = "ongoing" THEN "unknown" ELSE s

(* Mutant: a lost answer counts as a declined card. *)
doTx_LostIsFailed(state) == {"failed", classify(state)}

(* Transport errors, 5xx and 429 leave the outcome unknown. *)
doTx(state) == {"unknown", classify(state)}

VerifyTransaction(a) == doTx(Known(RefOf(a)))

RenewalCandidates ==
  /\ ten.auto /\ IsPaid(ten.plan) /\ ten.status = "active" /\ ten.card
  /\ ten.end > now /\ ten.end <= now + RenewalChargeWindow

reconcilePending(r) ==
  /\ pass[r].pc = "verify"
  /\ \/ pass[r].todo = {} /\ Goto(r, IF RenewalCandidates THEN "claim" ELSE "lapse")
     \/ \E a \in pass[r].todo : \E res \in VerifyTransaction(a) :
          pass' = [pass EXCEPT ![r].pc = "settle", ![r].a = a, ![r].res = res,
                               ![r].todo = @ \ {a}]
  /\ UNCHANGED <<now, ten, att, paid, bank, made>>

(* The reminder a charge depends on. *)
Reminded == ten.remEnd = ten.end /\ ten.remAuto /\ now - ten.remAt >= RenewalMinNotice

OfPeriod(end) == {a \in DOMAIN att : att[a].end = end}
Blocked(end) ==
  \/ \E a \in OfPeriod(end) : att[a].status # "failed"
  \/ Cardinality(OfPeriod(end)) >= RenewalMaxAttempts
  \/ \E a \in OfPeriod(end) : now - att[a].at < RenewalRetrySpacing

(* Under the tenants row's lock: every condition again, then the pending    *)
(* attempt before anything is sent.                                        *)
ClaimRenewalAttempt(r) ==
  /\ pass[r].pc = "claim"
  /\ IF RenewalCandidates /\ Reminded /\ ~Blocked(ten.end)
     THEN /\ att' = Append(att, [end |-> ten.end, n |-> Cardinality(OfPeriod(ten.end)) + 1,
                                 plan |-> ten.plan, at |-> now, status |-> "pending"])
          /\ pass' = [pass EXCEPT ![r].pc = "charge", ![r].a = Len(att) + 1]
     ELSE Goto(r, "lapse") /\ UNCHANGED att
  /\ UNCHANGED <<now, ten, paid, bank, made>>

(* The request may not reach Paystack; if it does, the card is charged,     *)
(* declined, charged another amount or still in progress, and the answer    *)
(* may be lost.                                                            *)
ChargeAuthorization(r, res) ==
  LET ref == RefOf(pass[r].a) IN
  \/ res = "unknown" /\ UNCHANGED bank
  \/ \E s \in {"succeeded", "failed", "ongoing", "odd"} :
       /\ bank' = [b \in DOMAIN bank \cup {ref} |->
                     IF b = ref THEN [plan |-> att[pass[r].a].plan, state |-> s] ELSE bank[b]]
       /\ res \in doTx(s)

(* A saved card that cannot be decrypted fails the attempt unsent. *)
renewOne(r) ==
  /\ pass[r].pc = "charge"
  /\ \E res \in Outcomes :
       /\ \/ res = "failed" /\ UNCHANGED bank
          \/ ChargeAuthorization(r, res)
       /\ pass' = [pass EXCEPT ![r].pc = "settle", ![r].res = res]
  /\ UNCHANGED <<now, ten, att, paid, made>>

AfterSettle(r) == IF pass[r].todo = {} /\ att[pass[r].a].at = now THEN "lapse" ELSE "verify"

FinishRenewalAttempt(a, status) ==
  att' = IF att[a].status = "pending" THEN [att EXCEPT ![a].status = status] ELSE att

(* Unknown outcomes and odd amounts stay pending; a success is applied and   *)
(* then finished, in two transactions.                                     *)
settle(r) ==
  LET a == pass[r].a IN
  /\ pass[r].pc = "settle"
  /\ \/ /\ pass[r].res \in {"unknown", "odd"}
        /\ Goto(r, AfterSettle(r)) /\ UNCHANGED <<ten, att, paid>>
     \/ /\ pass[r].res = "succeeded"
        /\ ApplyPlanPayment(RefOf(a), att[a].plan) /\ Goto(r, "finish") /\ UNCHANGED att
     \/ /\ pass[r].res = "failed"
        /\ FinishRenewalAttempt(a, "failed")
        /\ Goto(r, AfterSettle(r)) /\ UNCHANGED <<ten, paid>>
  /\ UNCHANGED <<now, bank, made>>

Finish(r) ==
  /\ pass[r].pc = "finish"
  /\ FinishRenewalAttempt(pass[r].a, "succeeded") /\ Goto(r, AfterSettle(r))
  /\ UNCHANGED <<now, ten, paid, bank, made>>

(* Mutant: a lapse leaves retention to the free plan. *)
DowngradeLapsedPlans_NoPin ==
  ten' = IF IsPaid(ten.plan) /\ ten.end < now
         THEN [ten EXCEPT !.plan = "free", !.status = "lapsed"] ELSE ten

(* The paid plan's retention is pinned unless the tenant has its own. *)
DowngradeLapsedPlans ==
  ten' = IF IsPaid(ten.plan) /\ ten.end < now
         THEN [ten EXCEPT !.plan = "free", !.status = "lapsed",
                          !.pin = IF @ = 0 THEN PlanFor[ten.plan].retention ELSE @]
         ELSE ten

runPlanLapse(r) ==
  /\ pass[r].pc = "lapse"
  /\ DowngradeLapsedPlans /\ pass' = [pass EXCEPT ![r] = Idle]
  /\ UNCHANGED <<now, att, paid, bank, made>>

-----------------------------------------------------------------------------

(* A replica dies, or the shutdown cancels its pass. *)
Crash(r) ==
  /\ pass[r].pc # "idle" /\ pass' = [pass EXCEPT ![r] = Idle]
  /\ UNCHANGED <<now, ten, att, paid, bank, made>>

Tick ==
  /\ now < Horizon /\ (\A r \in Replicas : pass[r].pc = "idle") /\ now' = now + 1
  /\ UNCHANGED <<ten, att, paid, bank, pass, made>>

Next ==
  \/ handleCheckout \/ PaystackResolves \/ handleWebhook \/ handleAutoRenew \/ Tick
  \/ \E r \in Replicas :
       \/ RunOnce(r) \/ sendReminders(r) \/ reconcilePending(r)
       \/ ClaimRenewalAttempt(r) \/ renewOne(r) \/ settle(r)
       \/ Finish(r) \/ runPlanLapse(r) \/ Crash(r)

Spec == Init /\ [][Next]_vars

-----------------------------------------------------------------------------

TypeOK ==
  /\ ten \in TenantPlan /\ att \in Seq(RenewalClaim)
  /\ \A b \in DOMAIN bank : bank[b] \in [plan: Plans, state: {"ongoing", "succeeded", "failed", "odd"}]

MoneyMoved(ref) == ref \in DOMAIN bank /\ bank[ref].state \in {"ongoing", "succeeded", "odd"}

(* However many replicas run, answers get lost and passes die, the saved    *)
(* card is charged at most once for one period: an attempt whose outcome    *)
(* is not known blocks every other one.                                    *)
ChargedOncePerPeriod ==
  \A a, b \in DOMAIN att :
    a # b /\ att[a].end = att[b].end => ~(MoneyMoved(RefOf(a)) /\ MoneyMoved(RefOf(b)))

(* Money a renewal took is credited to the plan or still waits for          *)
(* reconciliation: no attempt that charged the card is written off.         *)
NoChargeForgotten ==
  \A a \in DOMAIN att :
    MoneyMoved(RefOf(a)) => RefOf(a) \in paid \/ att[a].status = "pending"

(* Every renewal charge is accounted for: one per period, none written off. *)
ChargesAreAccounted == TypeOK /\ ChargedOncePerPeriod /\ NoChargeForgotten

Retention == IF ten.pin > 0 THEN ten.pin ELSE PlanFor[ten.plan].retention

(* A payment is credited once although the webhook and the pass both report *)
(* it: the period end moves only with a reference not seen before.  And a   *)
(* lapse never shortens how long the tenant's mail is kept, whatever the    *)
(* plan that lapses.                                                       *)
PlanStepsAreFair ==
  [][/\ ten'.end # ten.end => paid' # paid
     /\ ten.status = "active" /\ ten'.status = "lapsed" => Retention' >= Retention]_vars
=============================================================================
