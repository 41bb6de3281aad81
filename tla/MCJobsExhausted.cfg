\* One job whose every attempt throws, and nothing else goes wrong.
SPECIFICATION FairSpec
CONSTANTS
  Jobs = {bad}
  Failing = {bad}
  Workers = {w1}
  MaxAttempts = 3
  MaxStalls = 1
  NoWorker = NoWorker
  NoJob = NoJob
  Faults = {}
PROPERTY ExhaustedJobsAreMarkedFailed
CHECK_DEADLOCK FALSE
