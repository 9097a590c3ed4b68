SPECIFICATION SpecOfAreas
CONSTANTS
  Procs = {p1, p2}
  Steps = {1, 2}  MFAChallengeMaxAttempts = 1
  MaxAuthRequests = 4  MaxTokens = 3  MaxLinks = 2
  People = {"o", "a", "b"}  Owner = "o"  MemberCap = 2
  MaxLinkRequests = 3  MaxSends = 2
  Replicas = {p1, p2}
  ReminderLead = 3  RenewalChargeWindow = 2  RenewalMinNotice = 1
  RenewalRetrySpacing = 1  RenewalReconcileAfter = 1  RenewalMaxAttempts = 2
  planPeriod = 4  MaxOwnerRequests = 1  BillingHorizon = 4
  Graces = {0, 1}  touchThreshold = 0
  MaxKeyRequests = 4  MaxKeys = 3  KeysHorizon = 1
  Ids = {1, 2, 3}  Emails <- Addresses  limit = 1
  MaxLag = 1  MaxListRequests = 2  ListsHorizon = 2
  Subs = {"s"}  Events = {1, 2}  Tenants = {"t"}
  TenantOf <- OneTenant  Wants <- AllEvents
  Workers = {p1, p2}  FanOuts = {p1, p2}  Limit = 2
  MaxAttempts = 2  MaxSkips = 1  MaxDisables = 1  MaxLapses = 1  MaxFaults = 1
SYMMETRY Interchangeable
CHECK_DEADLOCK FALSE
INVARIANTS
  CredentialsAreSound InvitationsAreSound ChargesAreAccounted TablesAgree
  WalksAreExact
PROPERTIES PlanStepsAreFair HistoryIsImmutable
