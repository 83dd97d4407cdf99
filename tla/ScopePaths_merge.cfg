SPECIFICATION Spec
CONSTANTS
  Texts <- MCTexts
  Inputs <- MCInputs
  MaxScopePathLen = 6
  MaxLoads = 1
INVARIANTS CoverageKept NothingRedundant ScopesAgree
CHECK_DEADLOCK FALSE
