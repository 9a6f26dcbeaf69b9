SPECIFICATION Spec
CONSTANTS
  Callers = {t1, t2}
  Durations <- MCDurations
  TicksPerMicro = 2
  MicrosPerSecond = 2
  Capacity = 1
INVARIANT TypeOK
PROPERTIES BoundedCallsEnd CallsReleased
