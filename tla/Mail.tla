-------------------------------- MODULE Mail --------------------------------
(***************************************************************************)
(* What happens around the way of a message, in any interleaving: requests  *)
(* are admitted (Admission) and make templates and broadcasts               *)
(* (BroadcastRequests), clients hand mail to the SMTP server (SmtpServer),  *)
(* savers and the purge work on its files (FileStore), workers take permits *)
(* (Permits) and keep to a route (Routing), tenants prove and sign for      *)
(* their domains (SenderDomains), processes come and go (Lifecycle), and    *)
(* one delivery operation goes through its candidates (OutboundSmtp), is    *)
(* retried after a while (Backoff), reports of bounces and complaints come  *)
(* in (Feedback), owners publish the SPF records they are advised to (Spf), *)
(* DMARC policies are looked up (Dmarc), the bytes of a message go over     *)
(* DATA (SmtpData), and its signature goes through relays (DkimSign).  No   *)
(* step of one changes what another keeps.                                 *)
(***************************************************************************)
EXTENDS Integers, Sequences, FiniteSets

CONSTANTS
  Procs,                       \* requests in progress
  Fingerprints,                \* payloads a client may send with its one key
  Conns, Boxes, Tenants,       \* clients of the SMTP server, mailboxes
  RequireAuth, MaxConnections, MaxRecipients,
  ApiIds, ExpandedIds,         \* messages, of the API and of broadcasts
  Savers,                      \* goroutines that save
  Workers, Jobs, Domains,      \* workers, their jobs, recipient domains
  Destination, TenantLimit, DestinationLimit, TTL,
  Senders, Digest,             \* processes that dial; the hash of each message
  DomainLimit,                 \* plan limit on a tenant's domains
  Processes, Configured,       \* processes and their components
  Versions,                    \* migrations the newest binary embeds
  Hosts, Prefs, Rcpts,         \* mail servers, MX preferences, an envelope's recipients
  MaxCandidates,               \* candidates of one lookup
  Interval, Burst,             \* rate and size of the admission buckets
  DailySends, TenantMaxQueuedMessages, MaxPendingDispatch, MaxBatchSize,
  MaxItemRecipients,           \* deliverable recipients of one email
  Recipients, Foreign,         \* recipients of a reported message, groups of reports
  maxMIMEParts,
  IPs, Tokens, MaxTXTRecords, MaxTerms, MaxRecordBytes,   \* sending addresses, SPF records
  Labels, Answers, Tags, MaxTags, MaxReportURIs,   \* domains by their labels, DMARC records
  Half, Second, Policies, Draws,   \* durations, retry policies and their jitter
  Bytes, Buffer, Limits,       \* bytes of a message, the reader's buffer, size limits
  Chars, Names, Messages,      \* text, header names and messages that are signed
  MaxAttempts, MaxSendRequests, MaxReportRequests, MaxBroadcastRequests, MaxGen, MaxClaims, Horizon, MaxPools,
  MaxMembers, MaxRows, MaxKeys, MaxDomainRequests, MaxStarts, MaxRecords, MaxEdits,
  MaxWritten, MaxPublished, MaxBytes, MaxChanges   \* bounds

VARIABLES
  aNow, tat, level, aReq, aMade, daily, queued, pending, paid,
  tmpl, key, broadcasts, tReq, tMade, answers,
  slots, sess, told, sunk,
  dir, row, saver, purge, aged,
  pNow, set, claim, tokens,
  pools, members, domain, accepting, sendingMember, router, job, rSent,
  rAttempts, live,
  vRows, keys, vTxt, pub, vReq, vMade, proven, seen,
  schema, recorded, proc, starts,
  config, oPc, todo, conn, oAttempts, result, canceled, wire, leaked,
  fstat, nRows, supp, events, nReq, nMade, proof,
  policy, attempt, delay, zOut,
  eMode, eRecords, eRes, followed, edits,
  mTxt, zone, mPc, start, names, entries, walks, identity, finding, mRes,
  dSent, dWild, dLimit, dWire, dGot,
  kMsg, kSig, kOutcome, kChanges

A == INSTANCE Admission WITH now <- aNow, req <- aReq, made <- aMade,
       MaxRecipients <- MaxItemRecipients, MaxRequests <- MaxSendRequests
B == INSTANCE BroadcastRequests WITH req <- tReq, made <- tMade,
       MaxRequests <- MaxBroadcastRequests
I == INSTANCE SmtpServer
F == INSTANCE FileStore
P == INSTANCE Permits WITH now <- pNow
R == INSTANCE Routing WITH sent <- rSent, attempts <- rAttempts, Procs <- Senders
V == INSTANCE SenderDomains WITH rows <- vRows, txt <- vTxt, req <- vReq,
       made <- vMade, Domains <- DomainLimit, MaxRequests <- MaxDomainRequests
L == INSTANCE Lifecycle WITH Procs <- Processes
O == INSTANCE OutboundSmtp WITH pc <- oPc, attempts <- oAttempts
N == INSTANCE Feedback WITH rows <- nRows, req <- nReq, made <- nMade,
       MaxRequests <- MaxReportRequests
Z == INSTANCE Backoff WITH out <- zOut
E == INSTANCE Spf WITH mode <- eMode, records <- eRecords, res <- eRes
M == INSTANCE Dmarc WITH txt <- mTxt, pc <- mPc, res <- mRes
D == INSTANCE SmtpData WITH sent <- dSent, wild <- dWild, limit <- dLimit, wire <- dWire, got <- dGot
K == INSTANCE DkimSign WITH msg <- kMsg, sig <- kSig, outcome <- kOutcome, changes <- kChanges

(* What each component assumes of its constants. *)
ASSUME MailAssumption ==
  /\ A!AdmissionAssumption /\ B!BroadcastRequestsAssumption /\ I!SmtpServerAssumption
  /\ F!FileStoreAssumption /\ P!PermitsAssumption /\ R!RoutingAssumption
  /\ V!SenderDomainsAssumption /\ L!LifecycleAssumption /\ O!OutboundSmtpAssumption
  /\ N!FeedbackAssumption /\ Z!BackoffAssumption /\ E!SpfAssumption
  /\ M!DmarcAssumption /\ D!SmtpDataAssumption /\ K!DkimSignAssumption

aVars == <<aNow, tat, level, aReq, aMade, daily, queued, pending, paid>>
tVars == <<tmpl, key, broadcasts, tReq, tMade, answers>>
sVars == <<slots, sess, told, sunk>>
fVars == <<dir, row, saver, purge, aged>>
pVars == <<pNow, set, claim, tokens>>
rVars == <<pools, members, domain, accepting, sendingMember, router, job,
           rSent, rAttempts, live>>
vVars == <<vRows, keys, vTxt, pub, vReq, vMade, proven, seen>>
lVars == <<schema, recorded, proc, starts>>
oVars == <<config, oPc, todo, conn, oAttempts, result, canceled, wire, leaked>>
nVars == <<fstat, nRows, supp, events, nReq, nMade, proof>>
zVars == <<policy, attempt, delay, zOut>>
eVars == <<eMode, eRecords, eRes, followed, edits>>
mVars == <<mTxt, zone, mPc, start, names, entries, walks, identity, finding, mRes>>
dVars == <<dSent, dWild, dLimit, dWire, dGot>>
kVars == <<kMsg, kSig, kOutcome, kChanges>>
vars == <<aVars, tVars, sVars, fVars, pVars, rVars, vVars, lVars, oVars, nVars, zVars, eVars, mVars, dVars, kVars>>

StepOfAdmission == A!Next /\ UNCHANGED <<tVars, sVars, fVars, pVars, rVars, vVars, lVars, oVars, nVars, zVars, eVars, mVars, dVars, kVars>>
StepOfBroadcasts == B!Next /\ UNCHANGED <<aVars, sVars, fVars, pVars, rVars, vVars, lVars, oVars, nVars, zVars, eVars, mVars, dVars, kVars>>
StepOfServer == I!Next /\ UNCHANGED <<aVars, tVars, fVars, pVars, rVars, vVars, lVars, oVars, nVars, zVars, eVars, mVars, dVars, kVars>>
StepOfFiles == F!Next /\ UNCHANGED <<aVars, tVars, sVars, pVars, rVars, vVars, lVars, oVars, nVars, zVars, eVars, mVars, dVars, kVars>>
StepOfPermits == P!Next /\ UNCHANGED <<aVars, tVars, sVars, fVars, rVars, vVars, lVars, oVars, nVars, zVars, eVars, mVars, dVars, kVars>>
StepOfRoute == R!Next /\ UNCHANGED <<aVars, tVars, sVars, fVars, pVars, vVars, lVars, oVars, nVars, zVars, eVars, mVars, dVars, kVars>>
StepOfDomains == V!Next /\ UNCHANGED <<aVars, tVars, sVars, fVars, pVars, rVars, lVars, oVars, nVars, zVars, eVars, mVars, dVars, kVars>>
StepOfLifecycle == L!Next /\ UNCHANGED <<aVars, tVars, sVars, fVars, pVars, rVars, vVars, oVars, nVars, zVars, eVars, mVars, dVars, kVars>>
StepOfClient == O!Next /\ UNCHANGED <<aVars, tVars, sVars, fVars, pVars, rVars, vVars, lVars, nVars, zVars, eVars, mVars, dVars, kVars>>
StepOfFeedback == N!Next /\ UNCHANGED <<aVars, tVars, sVars, fVars, pVars, rVars, vVars, lVars, oVars, zVars, eVars, mVars, dVars, kVars>>
StepOfBackoff == Z!Next /\ UNCHANGED <<aVars, tVars, sVars, fVars, pVars, rVars, vVars, lVars, oVars, nVars, eVars, mVars, dVars, kVars>>
StepOfSpf == E!Next /\ UNCHANGED <<aVars, tVars, sVars, fVars, pVars, rVars, vVars, lVars, oVars, nVars, zVars, mVars, dVars, kVars>>
StepOfDmarc == M!Next /\ UNCHANGED <<aVars, tVars, sVars, fVars, pVars, rVars, vVars, lVars, oVars, nVars, zVars, eVars, dVars, kVars>>
StepOfData == D!Next /\ UNCHANGED <<aVars, tVars, sVars, fVars, pVars, rVars, vVars, lVars, oVars, nVars, zVars, eVars, mVars, kVars>>
StepOfSignature == K!Next /\ UNCHANGED <<aVars, tVars, sVars, fVars, pVars, rVars, vVars, lVars, oVars, nVars, zVars, eVars, mVars, dVars>>

Init == A!Init /\ B!Init /\ I!Init /\ F!Init /\ P!Init /\ R!Init /\ V!Init /\ L!Init /\ O!Init
        /\ N!Init /\ Z!Init /\ E!Init /\ M!Init /\ D!Init /\ K!Init
Next ==
  \/ StepOfAdmission \/ StepOfBroadcasts \/ StepOfServer \/ StepOfFiles \/ StepOfPermits
  \/ StepOfRoute \/ StepOfDomains \/ StepOfLifecycle \/ StepOfClient
  \/ StepOfFeedback \/ StepOfBackoff \/ StepOfSpf \/ StepOfDmarc
  \/ StepOfData \/ StepOfSignature
Spec == Init /\ [][Next]_vars

-----------------------------------------------------------------------------
(* The GCRA buckets are token buckets, Retry-After is exact, the caps      *)
(* overshoot by what is in flight (gcraScript, admitSend).                 *)
AdmissionIsExact == A!AdmissionIsExact

(* A template keeps a body and a key names one broadcast                   *)
(* (templateHandler.handleUpdate, CreateBroadcast).                        *)
RequestsAreSound == B!RequestsAreSound

(* No envelope, tenant, recipient or slot leaks from one SMTP session or   *)
(* transaction into another (HandleConnectionWithConfig,                   *)
(* resetTransaction).                                                      *)
SessionsAreSeparate == I!SessionsAreSeparate

(* Accepted mail is on disk and purged mail is not, wherever a step dies   *)
(* (Store.Save, PurgeExpiredMessages).                                     *)
FilesMatchRows == F!FilesMatchRows

(* The attempts that run at once stay within the permits (acquirePermits,  *)
(* acquireScript).                                                         *)
AttemptsWithinPermits == P!AttemptsWithinPermits

(* A message keeps to the member it was accepted for (Router.Deliver,      *)
(* buildRouter).                                                           *)
RouteIsKept == R!TypeOK /\ R!RouteIsKept

(* A member that is switched off takes no further mail                     *)
(* (holdIfMemberDisabled).                                                 *)
KillSwitchHolds == R!KillSwitchHolds

(* A verified registration was proven by its own token, whatever was       *)
(* deleted and registered again during the lookup (Verify).                *)
VerifiedWasProven == V!TypeOK /\ V!VerifiedWasProven

(* A domain that signs goes on signing through rotations that race         *)
(* (ActivateDKIMKey).                                                      *)
SigningNeverPauses == V!SigningNeverPauses

(* Processes that start at once migrate one schema in order, and stop      *)
(* their components before they close what those use (Migrate, applyOne,   *)
(* runComponents).                                                         *)
LifecycleIsSound == L!TypeOK /\ L!LifecycleIsSound

(* One SMTP operation keeps its secrets, offers the message to one server  *)
(* and tries the candidates in order (Engine.Deliver, Client.Send).        *)
OperationIsSound == O!OperationIsSound

(* What MailX writes in a report is what it reads in it (Generate,         *)
(* ParseDSN).                                                              *)
ReportsReadBack == N!ReportsReadBack

(* Reports are read as they were meant and only they suppress (ParseDSN,   *)
(* ProcessFeedback).                                                       *)
FeedbackIsSound == N!TypeOK /\ ReportsReadBack /\ N!SuppressionNeedsProof

(* The retry delay is the documented one, capped and never wrapped, and     *)
(* jitter keeps within its percentage (BackoffPolicy.Delay, Jitter).        *)
DelayIsExact == Z!TypeOK /\ Z!DelayIsExact

(* The text that arrives over DATA is the one that was sent, within its     *)
(* limits (serializeForDATA, readData).                                     *)
DataIsFaithful == D!DataIsFaithful

(* What was signed still verifies after transit (relaxedHeader,             *)
(* relaxedBody, selectHeaders).                                             *)
SignatureSurvives == K!TypeOK /\ K!SignatureSurvives

(* The SPF record MailX advises verifies once published (Merge, Analyze).   *)
AdviceVerifies == E!TypeOK /\ E!AdviceVerifies

(* What MailX concludes from DNS holds: a verified registration was proven  *)
(* by its own token (Verify), the SPF record it advises verifies once       *)
(* published (Merge, Analyze), and the DMARC tree walk ends at the          *)
(* organization (treeWalk, resolve).                                        *)
DnsConclusionsHold == VerifiedWasProven /\ AdviceVerifies /\ M!PolicyIsFound
=============================================================================
