SPECIFICATION Spec
CONSTANTS
  Sym <- MenuSym
  Type <- MenuType
  Modules = 2
  Mentioned = {"X", "A", "T"}
  Leaves <- MenuLeaves
  MaxLeaves = 3
  Order <- MenuOrder
  Conditions <- MenuConditions
  Prompts <- MenuPrompts
  Parents <- MenuParents
  Symbol <- ScanSymbol
  Of <- ScanOf
  Graphs <- ScanGraphs
INVARIANTS RewritesKeepValue
INVARIANTS ConditionsKept NestedSeenWithParent
INVARIANTS BuiltAsWritten RecursionFound ListsCurrent FrontEndsAgree
PROPERTIES AllAsked
CHECK_DEADLOCK FALSE
