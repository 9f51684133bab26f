\* A rule as the builder page sends it, in a day of four minutes.
CONSTANTS
  Rules = {k1}
  Day = 4
  Values = {0, 1}
  Triggers <- MCPage
  Actions = {"turn_on"}
  Worlds <- MCClocks
  NoRule = NoRule
  Nobody = Nobody
  NoValue = NoValue
  Same = Same
  MayFail = FALSE
  MayCrash = FALSE
SPECIFICATION Spec
INVARIANT TriggeredIsCommanded
