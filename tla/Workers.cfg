SPECIFICATION SuiteSpec
CONSTANTS
  Workers = {w1}
  Callers = {c1, c2}
  Batches = {2, 8}
  NoJob = NoJob
  MaxCalls = 1
  PoolThreads = {t1, t2}
  Cells = {1, 2, 3}
  Close <- Around1
  NoCell = NoCell
  MaxJobs = 2
  MaxFrames = 4
  MaxEvents = 3
  wzl = 2
  QCap = 2
  CopyBudget = 2
  Extent = 12
  Cov = 4
  Focus = {3, 9}
  Starts = {0, 1, 3}
  Corrupt = {0}
  Gens = 4
  MaxCamera = 2
  NoSlice = NoSlice
  Segs = {m1, m2, m3}
  GridBytes <- GridSizes
  SegBudget = 3
  Unread = {}
  MaxActs = 1
  MaxOpens = 0
  NoSeg = NoSeg
  m1 = m1
  m2 = m2
  m3 = m3
  m4 = m4
  Invalid = Invalid
  Zero = Zero
  None = None
  Forever = Forever
\* Callers, the tracer and the presenter stop; their threads stay parked.
CHECK_DEADLOCK FALSE
INVARIANTS
  NoUseAfterReturn
  NoDoubleDecode
  ReturnsComplete
  PhaseComplete
  FrameSeesItsWindow
  PresentsLiveImages
  GridStaysPinned
PROPERTIES
  CallReturns
  ImplementsBatchDecode
  ViewSharpens
  PhaseReturns
  LevelFills
  FramesEnd
  ClicksAnswered
  Delivered
