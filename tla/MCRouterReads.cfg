\* Every key, a router that comes and goes.
CONSTANTS
  c2 = c2
  c3 = c3
  Callers = {c1, c2, c3}
  Visitors <- MCVisitors
  Radios <- MCRadios
  Hosts = {h1}
  TTLs <- MCTTLs
  MaxCalls = 1
  NoCaller = NoCaller
  NoKey = NoKey
  NoValue = NoValue
  Failed = Failed
  Absent = Absent
SPECIFICATION Spec
INVARIANTS
  TypeOK
  OlderOnlyIfAlreadyRead
PROPERTIES
  FailuresPass
