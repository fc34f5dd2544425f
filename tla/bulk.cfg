SPECIFICATION FairSpec
CONSTANTS
  BufCount = 2
  Requests = {}
  HostEvents = {"SETCONF", "RESET", "HALT", "SUSPEND", "RETRY", "LPM"}
  NoRenum = FALSE
  Refusals = {"speed", "epConfig", "channel", "xfer"}
  CallbackDrained = TRUE
INVARIANTS ActiveExact NoErrorHandler SourceKeepsBuffers
PROPERTIES RetryRecovers
