SPECIFICATION TracerSpec
CONSTANTS
  PoolThreads = {t1, t2}
  Cells = {1, 3, 5, 6}
  Close <- Line
  NoCell = NoCell
  MaxJobs = 2
\* The pool is taken down in the end.
CHECK_DEADLOCK FALSE
INVARIANT ActiveDiscsApart
