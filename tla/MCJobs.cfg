\* A job that succeeds and one that throws, two workers, every fault.
SPECIFICATION FairSpec
CONSTANTS
  Jobs = {ok, bad}
  Failing = {bad}
  Workers = {w1, w2}
  MaxAttempts = 2
  MaxStalls = 1
  NoWorker = NoWorker
  NoJob = NoJob
  Faults = {"addFails", "dbFails", "crash", "lockLost"}
INVARIANTS TypeOK ExecutionsAreBounded CompletedRowsAgree
PROPERTIES CompletedRowsReopenUnheard QueuedJobsSettle
CHECK_DEADLOCK FALSE
