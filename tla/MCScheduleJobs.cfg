\* Two requests on one schedule, with failing statements and restarts.
CONSTANTS
  Schedules = {s1}
  Requests = {r1, r2}
  Configs = {g1, g2}
  MCBadOnce = {g2}
  BadTriggers <- MCBadTriggers
  Kinds = {"recurring", "once", "unknown"}
  Nobody = Nobody
  NoRow = NoRow
  NoJob = NoJob
  NoSchedule = NoSchedule
  NoConfig = NoConfig
  Same = Same
  MayFail = TRUE
  MayCrash = TRUE
SPECIFICATION Spec
INVARIANTS
  TypeOK
  PartedOnlyIfExposed
PROPERTIES
  FiresWhatIsSaved
  LastTriggeredIsKept
  NobodyWaitsForever
