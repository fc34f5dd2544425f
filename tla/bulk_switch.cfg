SPECIFICATION Spec
CONSTANTS
  BufCount = 2
  Requests = {"switch"}
  HostEvents = {"SETCONF"}
  NoRenum = FALSE
  Refusals = {}
  CallbackDrained = TRUE
INVARIANTS ActiveExact
