SPECIFICATION DefSpec
CONSTANTS
  Sym <- AskSym
  NoSym = NoSym
  Type <- AskType
  Choices = {}
  ChoiceOf <- NoChoiceOf
  MenuPos <- AskPos
  Prompt <- AskPrompt
  DirDep <- AskDir
  RevDep <- AskRev
  Defaults <- AskDefaults
  Expr <- Used
  ExprVal <- expr_calc_value
  Reads <- Mentions
  Modules = 2
  InitFiles <- AskFiles
  MaxOps = 3
INVARIANTS InSync
