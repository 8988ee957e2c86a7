SPECIFICATION Spec
CONSTANTS
  e1 = e1
  e2 = e2
  c1 = c1
  c2 = c2
  decode = decode
  call = call
  None = None
  Free = Free
  Emitters <- MCEmitters
  Controllers <- MCControllers
  Events <- MCEvents
  Filters <- MCFilters
  Cap = 1
  MaxSessions = 2
  MaxEmits = 3
INVARIANT
  EmitIsPure
