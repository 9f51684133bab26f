\* A handler and a job, one device.
CONSTANTS
  a1 = a1
  r1 = r1
  j1 = j1
  Routes = {r1}
  Jobs = {j1}
  Ains = {a1}
  Caps <- MCCaps
  Temps <- MCTemps
  Asks <- MCAsks
  NoCaller = NoCaller
  Unknown = Unknown
  Nothing = Nothing
  MaxCarried = 1
SPECIFICATION Spec
INVARIANTS
  TypeOK
  OneConnection
  ReadingIsTrue
  CommandsAccounted
PROPERTIES
  EveryCallEnds
