SPECIFICATION DefSpec
CONSTANTS
  Sym <- PkgSym
  NoSym = NoSym
  Type <- PkgType
  Choices <- PkgChoices
  ChoiceOf <- PkgChoiceOf
  MenuPos <- PkgPos
  Prompt <- PkgPrompt
  DirDep <- PkgDir
  RevDep <- PkgRev
  Defaults <- PkgDefaults
  Expr <- Used
  ExprVal <- expr_calc_value
  Reads <- Mentions
  Modules = 2
  InitFiles <- PkgFiles
  MaxOps = 3
INVARIANTS DependenciesMet SelectsObeyed AnswersStick DefconfigKeeps
