SPECIFICATION FairSpec
CHECK_DEADLOCK FALSE
CONSTANTS
  Reply <- MCReply
  Route <- MCRoute
  Bodies <- MCBodies
  Delays = {0, 2}
  MinBackoff = 1
  BackoffCap = 2
  FirstWait = 2
  RepeatWait = 4
  MaxRetryAfter = 4
INVARIANTS
  WindowKept
PROPERTIES
  RewritesAreFresh
  LimitKept
  Terminates
