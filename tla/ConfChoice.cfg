SPECIFICATION DefSpec
CONSTANTS
  Sym <- DrvSym
  NoSym = NoSym
  Type <- DrvType
  Choices <- DrvChoices
  ChoiceOf <- DrvChoiceOf
  MenuPos <- DrvPos
  Prompt <- DrvPrompt
  DirDep <- DrvDir
  RevDep <- DrvRev
  Defaults <- DrvDefaults
  Expr <- Used
  ExprVal <- expr_calc_value
  Reads <- Mentions
  Modules = 2
  InitFiles <- DrvFiles
  MaxOps = 2
INVARIANTS OneChosen InSync CacheCoherent
