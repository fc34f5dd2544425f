SPECIFICATION FairSpec
CONSTANTS
  BufCount = 1
  Requests = {"data", "wake", "standby", "switch", "boot", "reset"}
  HostEvents = {"SUSPEND", "LPM", "VBUS_OFF", "VBUS_BACK"}
  NoRenum = TRUE
  Refusals = {"epConfig", "standby"}
  CallbackDrained = TRUE
INVARIANTS AnswersMatch
PROPERTIES RequestAnswered StandbyFollows
