\* One device, two viewers, two operators, two changes.
CONSTANTS
  Devices = {d1}
  Viewers = {v1, v2}
  Operators = {u1, u2}
  NoOne = NoOne
  NoDevice = NoDevice
  NoVersion = NoVersion
  ViewTTL = 1
  SweepTTL = 2
  MaxVersion = 2
SPECIFICATION Spec
INVARIANTS
  TypeOK
  StaleOnlyIfOvertaken
PROPERTIES
  ServesCurrentStateInTheEnd
