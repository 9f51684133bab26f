\* A request, the job and a rule on a row that lasts for one tick.
CONSTANTS
  Requests = {r1}
  Job = Job
  Rule = Rule
  Responses <- MCMeteo
  Provider = "open-meteo"
  TTL = 1
  NoRow = NoRow
  NoResponse = NoResponse
  Null = Null
SPECIFICATION Spec
INVARIANTS
  TypeOK
  MixedOnlyIfOvertaken
PROPERTIES
  WarmAgainAndAgain
