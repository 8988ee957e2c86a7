\* The programs have 96 cells, words of two, and text of four or more.
CONSTANTS
  Top = 95
  PtrSize = 2
  Fetch = 4
  None = None
  MaxInsns = 8
  ArgWindow = 6
  PltSizes = {4}
  PltSize = 4
  MaxPltDist = 4
  Probe = 6
  Whole = 8
  MinString = 4
  TableMin = 4
  Images <- AllImages
  MaxSteps = 4
  Stubs <- MCStubs
  Monitors <- MCMonitors
SPECIFICATION EmuSpec
INVARIANTS CodeClosed ThunksAnnotated EmulationInCode
PROPERTIES TablesFound PointersNamed
