SPECIFICATION LiveSpec
CONSTANTS
  t = t
  Subs = {s1, s2}  Events = {e1}  Tenants = {t}
  TenantOf <- OneTenant  Wants <- AllEvents
  Workers = {w1, w2}  FanOuts = {f1}  Limit = 1
  MaxAttempts = 2  MaxSkips = 1  MaxDisables = 1  MaxLapses = 0  MaxFaults = 1
PROPERTIES ObligationsSettle
CHECK_DEADLOCK FALSE
