SPECIFICATION Spec
CONSTANTS
  None = None
  Whole = Whole
  Space = 16
  Layout <- MCLayout
  Programs <- MCPrograms
  Maps <- MCMaps
  Initial <- MCInitial
  Values = {3, 7}
  Sentinel = 12
  Half = 8
  MaxInsns = 5
  MaxHit = 2
  MaxCalls = 3
INVARIANTS
  StopsWhereFirst
PROPERTIES
  RestoreExact
CHECK_DEADLOCK FALSE
