\* Two rules: edits, deletes, raising calls, failing commits and restarts.
CONSTANTS
  Rules = {k1, k2}
  Day = 2
  Values = {0, 1}
  Triggers <- MCRoomOrEvening
  Actions = {"on"}
  Worlds <- MCEvenings
  NoRule = NoRule
  Nobody = Nobody
  NoValue = NoValue
  Same = Same
  MayFail = TRUE
  MayCrash = TRUE
SPECIFICATION Spec
INVARIANTS
  TypeOK
  ActsOnCurrentRules
  StampsMatchRuns
PROPERTIES
  EditsSurviveSweep
  EvaluatedAgain
