SPECIFICATION Spec
CONSTANTS
  None = None
  NoName = NoName
  Space = 8
  VA = {2, 3}
  Marks = {2}
  Names = {"f", "g"}
  Labels = {"f"}
  Values = {"v"}
  Keys = {"md5"}
  SetNames = {"imports"}
  Sizes = {1}
  RefTypes = {"Code"}
  Bytes = {0, 1}
  Archs = {"amd64"}
  Maps <- MCMaps
  Files <- MCFiles
  MaxOps = 3
  MaxSaves = 2
  MaxLives = 2
INVARIANTS
  NoFunctionLost
PROPERTIES
  GenerationGuards
  RestoresLastSave
  MemorySpec
