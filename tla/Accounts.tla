------------------------------ MODULE Accounts ------------------------------
(***************************************************************************)
(* What a tenant's people do at the dashboard and what happens to their     *)
(* plan meanwhile: sign-in and second factors (HumanAuth), links and        *)
(* organizations (AccountLinks), the paid plan (Billing), API keys          *)
(* (ApiKeys) and the lists of contacts, audiences and the like (Audiences), *)
(* each with requests of its own, in any interleaving.  The                 *)
(* handlers run in one server (cmd/mailx/main.go) on tables of one          *)
(* database, but no statement of one component touches a table of another.  *)
(***************************************************************************)
EXTENDS Integers, Sequences, FiniteSets

CONSTANTS
  Procs,                    \* handlers in flight
  Steps,                    \* TOTP steps inside the skew window
  MFAChallengeMaxAttempts,
  People, Owner,            \* addresses, and who creates the organization
  MemberCap,                \* members the plan allows
  Replicas,                 \* processes running runPlanLapse
  ReminderLead, RenewalChargeWindow, RenewalMinNotice, RenewalRetrySpacing,
  RenewalReconcileAfter, RenewalMaxAttempts,
  planPeriod,
  Graces,                   \* grace periods a rotation may be given
  touchThreshold,
  Ids, Emails, limit,       \* row ids, addresses, and the size of a page
  MaxLag,                   \* how far a transaction's time lags the clock
  MaxAuthRequests, MaxTokens, MaxLinks,    \* bounds of HumanAuth
  MaxLinkRequests, MaxSends,               \* bounds of AccountLinks
  MaxOwnerRequests, BillingHorizon,        \* bounds of Billing
  MaxKeyRequests, MaxKeys, KeysHorizon,    \* bounds of ApiKeys
  MaxListRequests, ListsHorizon            \* bounds of Audiences

VARIABLES
  acct, rt, resets, chals, states, ident, access, hReq, clock, hMade, spent,
  doubled, proven,
  humans, verified, org, inv, tok, lReq, lMade,
  bNow, ten, att, paid, bank, pass, bMade,
  kNow, keys, kReq, kMade,
  contacts, audiences, members, uTables, gone, uNow, uMade, walk

H == INSTANCE HumanAuth WITH req <- hReq, made <- hMade,
       MaxAttempts <- MFAChallengeMaxAttempts, MaxRequests <- MaxAuthRequests
L == INSTANCE AccountLinks WITH req <- lReq, made <- lMade, MaxRequests <- MaxLinkRequests
B == INSTANCE Billing WITH now <- bNow, made <- bMade, MaxRequests <- MaxOwnerRequests,
       Horizon <- BillingHorizon
K == INSTANCE ApiKeys WITH now <- kNow, req <- kReq, made <- kMade,
       MaxRequests <- MaxKeyRequests, Horizon <- KeysHorizon
U == INSTANCE Audiences WITH now <- uNow, made <- uMade, tables <- uTables,
       MaxRequests <- MaxListRequests, MaxTime <- ListsHorizon

(* What each component assumes of its constants. *)
ASSUME AccountsAssumption ==
  /\ H!HumanAuthAssumption /\ L!AccountLinksAssumption
  /\ B!BillingAssumption /\ K!ApiKeysAssumption /\ U!AudiencesAssumption

hVars == <<acct, rt, resets, chals, states, ident, access, hReq, clock, hMade,
           spent, doubled, proven>>
lVars == <<humans, verified, org, inv, tok, lReq, lMade>>
bVars == <<bNow, ten, att, paid, bank, pass, bMade>>
kVars == <<kNow, keys, kReq, kMade>>
uVars == <<contacts, audiences, members, uTables, gone, uNow, uMade, walk>>
accountsVars == <<hVars, lVars, bVars, kVars, uVars>>

StepOfSessions == H!Next /\ UNCHANGED <<lVars, bVars, kVars, uVars>>
StepOfLinks == L!Next /\ UNCHANGED <<hVars, bVars, kVars, uVars>>
StepOfBilling == B!Next /\ UNCHANGED <<hVars, lVars, kVars, uVars>>
StepOfKeys == K!Next /\ UNCHANGED <<hVars, lVars, bVars, uVars>>
StepOfLists == U!Next /\ UNCHANGED <<hVars, lVars, bVars, kVars>>

AccountsInit == H!Init /\ L!Init /\ B!Init /\ K!Init /\ U!Init
AccountsNext == StepOfSessions \/ StepOfLinks \/ StepOfBilling \/ StepOfKeys \/ StepOfLists
AccountsSpec == AccountsInit /\ [][AccountsNext]_accountsVars

-----------------------------------------------------------------------------
(* No credential works twice: HumanAuth's tokens, links, codes and         *)
(* challenges are redeemed once, and of two rotations of one API key one   *)
(* succeeds.                                                               *)
CredentialsAreSound == H!CredentialsAreSound /\ K!TypeOK /\ K!OneSuccessor

(* Links supersede one another cleanly and acceptances stay within the     *)
(* member cap (SupersedeOtherPendingOrgInvitations, lockMemberCap).        *)
InvitationsAreSound == L!InvitationsAreSound

(* The saved card is charged once per period and no charge is written off  *)
(* (ClaimRenewalAttempt, settle, reconcilePending).                        *)
ChargesAreAccounted == B!ChargesAreAccounted

(* A payment is credited once, and a lapse keeps the retention             *)
(* (ApplyPlanPayment, DowngradeLapsedPlans).                               *)
PlanStepsAreFair == B!PlanStepsAreFair

(* Paging through a list that changes misses and repeats no row that       *)
(* stayed (ListContacts, ListAudiences).                                   *)
WalksAreExact == U!TypeOK /\ U!WalksAreExact
=============================================================================
