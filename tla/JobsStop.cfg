SPECIFICATION Spec
CONSTANTS
  j1 = j1
  d1 = d1
  d2 = d2
  host = host
  h1 = h1
  Job = {j1}
  Dispatched = {}
  HostOf <- MCHostOf
  Handler = {h1}
  TargetOf <- MCTargetOf
  Unparsable = {}
  MaxFailures = 0
  MaxCrashes = 0
\* A job that is over is never run again.
CHECK_DEADLOCK FALSE
INVARIANT
  AcknowledgedStopHolds
