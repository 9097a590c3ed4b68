SPECIFICATION SpecOfAreas
CONSTANTS
  Procs = {p1, p2}
  Fingerprints = {"f", "g"}  MaxBroadcastRequests = 4
  Conns = {p1, p2, p3}  Boxes = {"a", "b"}  Tenants = {"t", "u"}
  RequireAuth = TRUE  MaxConnections = 2  MaxRecipients = 2
  ApiIds = {"a"}  ExpandedIds = {"b"}  Savers = {p1, p2}  MaxGen = 3
  Workers = {p1, p2}  Jobs = {"i", "j"}  Domains = {"d", "e"}  Destination <- ToDomain
  TenantLimit = 1  DestinationLimit = 1  TTL = 2  MaxClaims = 4  Horizon = 3
  Senders = {"p"}  Digest <- OneMessage  MaxPools = 1  MaxMembers = 2
  DomainLimit = 1  MaxRows = 2  MaxKeys = 2  MaxDomainRequests = 6
  Processes = {"p", "q"}  Configured <- TwoRoles  Versions = 2  MaxStarts = 2
  Hosts = {"a", "b", ".", "bad"}  Prefs = {0, 10}  MaxRecords = 3  MaxCandidates = 2
  Rcpts = {1, 2}  Recipients <- Reported  Foreign <- Reports  maxMIMEParts = 3  MaxReportRequests = 3
  Interval <- Rates  Burst <- Sizes  DailySends = 1  TenantMaxQueuedMessages = 1
  MaxPendingDispatch = 1  MaxBatchSize = 2  MaxItemRecipients = 2  MaxSendRequests = 2
  IPs <- Addresses  Tokens <- Terms  MaxTXTRecords = 2  MaxTerms = 4  MaxRecordBytes = 5  MaxEdits = 3
  Labels = {1, 2, 3, 9}  Answers <- Answered  Tags <- DmarcTags  MaxTags = 3  MaxReportURIs = 1  MaxWritten = 4  MaxPublished = 2
  Half <- HalfRange  Second = 2  Policies <- RetryPolicies  Draws <- Extremes  MaxAttempts = 17
  Bytes = {"r", "n", ".", "x"}  MaxBytes = 5  Buffer = 4  Limits = {0, 4, 6, 20}
  Chars <- Characters  Names <- FieldNames  Messages <- Mails  MaxChanges = 3
SYMMETRY Interchangeable
CHECK_DEADLOCK FALSE
INVARIANTS
  AdmissionIsExact RequestsAreSound
  OperationIsSound SessionsAreSeparate DataIsFaithful FilesMatchRows AttemptsWithinPermits
  RouteIsKept DelayIsExact SignatureSurvives FeedbackIsSound DnsConclusionsHold
  LifecycleIsSound
PROPERTIES KillSwitchHolds SigningNeverPauses
