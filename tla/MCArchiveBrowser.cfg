SPECIFICATION Spec
CONSTANTS
  Runs <- ThreeRuns
  AmmeterTypes = {"greenlee"}
  Limits = {1, 3}
  InitialLimit = 3
  Needles = {"", "entes"}
  CompareLimit = 2
  TicksPerSecond = 2
  Queries <- ScriptQueries
  MaxMishaps = 1
INVARIANTS DetailIsSelection ViewsAgree
PROPERTIES AnswersAreExact ChoicesSurviveRefresh
CHECK_DEADLOCK FALSE
