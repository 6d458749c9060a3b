SPECIFICATION FairProcSpec
CONSTANTS
  Callers = {a, b, c}
  BufSize = 2
  MaxLogs = 6
  Initial = 1
  Thereafter = 2
  QueueSize = 1
INVARIANT Audited
PROPERTY Exits
CHECK_DEADLOCK FALSE
