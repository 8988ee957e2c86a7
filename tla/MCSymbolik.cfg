SPECIFICATION Spec
CONSTANTS
  Bits = 8
  Hash <- MCHash
  Stride = 29
  PointerSize = 8
  Stack = "rsp"
  Result = "rax"
  High = "rdx"
  FrameBase = "rbp"
  Arguments <- MCArguments
  CmpLhs = "cmp lhs"
  CmpRhs = "cmp rhs"
  Registers <- MCRegisters
  Indexes <- MCIndexes
  Functions <- MCFunctions
  Guards = {"jae", "jb", "jbe", "je"}
  Ns = {0, 2, 4}
  MaxPaths = 7
  MaxLoop = 2
  MaxCases = 8
  Envs <- MCEnvs
  Inputs <- MCInputs
INVARIANTS
  PathsWalked
  InOrderExact
  PrunedInfeasible
  RewritesKeepMeaning
  CasesExact
CHECK_DEADLOCK FALSE
