SPECIFICATION FairSpec
CONSTANTS
  Funcs = {f1, f2, f3, f4}
  NoFunc = NoFunc
  NModules = 2
  NFuncModules = 2
  MaxFunctions = 2
  MaxAnalyses = 2
INVARIANTS
  OfferedOnceInOrder
  CascadeComplete
  CapRespected
PROPERTIES
  NoModuleAfterLimit
  CascadeSpec
  AnalyzeReturns
