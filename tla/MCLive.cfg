SPECIFICATION SpecOfAreas
CONSTANTS
  r1 = r1  r2 = r2  r3 = r3
  Requests = {r1, r2, r3}  Payloads = {"p1", "p2"}  Payload <- OneOdd
  MaxFaults = 1  MaxCleanups = 1
  Jobs = {j1, j2}  Callers = {p1, p2, p3}  Capacity = 1  MaxTime = 1  MaxCalls = 4
  Ids = {i1, i2, i3}
CHECK_DEADLOCK FALSE
INVARIANTS KeysAreSound NoLostWakeup
PROPERTIES RequestsAreServed BlockedCallsEnd ImplementsContract OutboxIsFair
