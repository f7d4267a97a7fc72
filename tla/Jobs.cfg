SPECIFICATION Spec
CONSTANTS
  j1 = j1
  d1 = d1
  d2 = d2
  host = host
  h1 = h1
  Job = {j1, d1, d2}
  Dispatched = {d1, d2}
  HostOf <- MCHostOf
  Handler = {h1}
  TargetOf <- MCTargetOf
  Unparsable = {d2}
  MaxFailures = 1
  MaxCrashes = 1
\* A job that is over is never run again.
CHECK_DEADLOCK FALSE
INVARIANTS
  TypeOK
  LiveJobHasEngine
  GaugeLeakBounded
  HeardStopNotCompleted
PROPERTIES
  VerdictReplacedOnlyByStop
  JobsSettle
  DispatchedIsServed
