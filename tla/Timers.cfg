SPECIFICATION Spec
CONSTANTS
  None = None
  MaxTime = 6
  MaxBytes = 2
  MaxStepsBack = 1
  Settings <- SomeSettings
  StartPhase = 4
  StartInterval = 3
  SampleRetry = 1
  FailureRetry = 2
INVARIANTS TypeOK DeadlinesAgree
PROPERTIES NoEarlyFreeze NoEarlyWakeup AuditsKeepApart FreezesOnMeasuredRate
