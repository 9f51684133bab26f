\* Three coroutines and two keys: safety, termination of every call, and
\* the contract.
CONSTANTS
  c1 = c1
  c2 = c2
  c3 = c3
  k1 = k1
  k2 = k2
  Callers = {c1, c2, c3}
  Keys = {k1, k2}
  Values = {v1}
  NoCaller = NoCaller
  NoKey = NoKey
  NoValue = NoValue
  FetchTTL <- MCFetchTTL
  SetTTL = 2
SPECIFICATION Spec
INVARIANTS
  TypeOK
  SingleFlight
PROPERTIES
  EveryCallReturns
  ImplementsContract
