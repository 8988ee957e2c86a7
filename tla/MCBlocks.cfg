SPECIFICATION NoReturnFairSpec
CONSTANTS
  None = None
  VA <- MCVA
  Mapped <- MCMapped
  Programs <- MCPrograms
  Queues <- MCQueues
  Caps = {9}
  Given = {1}
  NoReturns = {3}
  DataVAs = {4}
  Imports = {6}
  ExitNames = {6}
  Traps = {4}
  Window = 2
  MaxRuns = 1
INVARIANTS
  BlocksClosed
  OverlapsEndTogether
  StoredCallsReferenced
  NoReturnLeast
  NoReturnSound
  PathsAndLoopsExact
  GraphsAgree
PROPERTIES
  WalkEnds
