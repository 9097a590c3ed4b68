SPECIFICATION Spec
CONSTANTS
  Tenants = {t1, t2}  Procs = {p1, p2}  Domains = 1
  MaxRows = 2  MaxKeys = 2  MaxRequests = 6
CHECK_DEADLOCK FALSE
INVARIANT ActiveKeyWasPublished
