\* One request at a time and a restart.
CONSTANTS
  Schedules = {s1}
  Requests = {r1}
  Configs = {g1, g2}
  BadTriggers = {}
  MCBadOnce = {}
  Kinds = {"recurring"}
  Nobody = Nobody
  NoRow = NoRow
  NoJob = NoJob
  NoSchedule = NoSchedule
  NoConfig = NoConfig
  Same = Same
  MayFail = FALSE
  MayCrash = TRUE
SPECIFICATION Spec
INVARIANT JobsFollowRows
