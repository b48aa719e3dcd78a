CONSTANTS
  HalfBits <- MCHalfBits
  MtimeBound <- MCMtimeBound
  SamplePeriod <- MCSamplePeriod
  TimerData <- MCTimerData
SPECIFICATION Spec
\* the process may exit: a stopped loop is not a deadlock
CHECK_DEADLOCK FALSE
PROPERTY TimerLineFollows
PROPERTY TimerHalvesRoundTrip
