SPECIFICATION FairSpec
CONSTANTS
  None = None
  VA <- MCVA
  Mapped <- MCMapped
  Programs <- MCPrograms
  Queues <- MCQueues
  Caps = {2, 9}
  Given = {1}
  NoReturns = {0, 3}
  MaxRuns = 2
INVARIANTS
  VisitedReachable
  FlowClosed
  CallTargetsAreFunctions
PROPERTIES
  RunEnds
