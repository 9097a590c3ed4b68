SPECIFICATION Spec
CONSTANTS
  r1 = r1  r2 = r2  r3 = r3  p1 = p1  p2 = p2
  Requests = {r1, r2, r3}  Payloads = {p1, p2}  Payload <- OneOdd
  MaxFaults = 0  MaxCleanups = 0
CHECK_DEADLOCK FALSE
INVARIANTS ReplayMatchesPayload
