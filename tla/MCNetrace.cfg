SPECIFICATION Spec
CONSTANTS
  Params <- MCParams
  Capacity = 2
  Unit = 2
  Debug = TRUE
  Slack = 2
  MaxTimeouts = 2
  CoresPerChip = {1, 3, 4, 16}
PROPERTY
  InjectedAtTimeStamp
