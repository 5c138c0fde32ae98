SPECIFICATION MCSpec
CONSTANTS
  Items = 5
  Heights = {1, 2, 3, 4}
  ItemText <- Texts
  Alpha = {"a", "b", "e", "m", "n", "s", "y"}
  Values = 5
  ListHeight = 3
  Initial <- Letters
  Char = {"a", "b"}
  Width = 3
  MaxLen = 5
  Contents <- ShortTexts
  BoxHeights = {1, 2, 3}
  Borders = {4}
  MaxScroll = 1
  JumpNb = 2
  Columns = {2, 3, 4, 5, 6, 7, 8, 9, 10, 11, 12}
  Trails <- ShortTrails
  Ellipsis = 2
  Widths = {4, 6, 7}
  Indent = 1
  Border = 2
  Prompts <- ShortPrompts
  Writer = {w1, w2}
  Config = {c1, c2}
  Missing = Missing
  Broken = Broken
  Sym = {"T", "S"}
  Tristate = {"T"}
  Strings = {"u", "v"}
  Value = {"p", "q"}
  Default = "p"
  Answer = {"yes"}
  Unset = "no"
  Name = {".config", "other"}
  DotConfig = ".config"
  MaxDepth = 4
INVARIANTS RowsShowItems TextShown TitlesArePath ValuesKept QuietExitKeeps Rebuilds
PROPERTIES ReopensInPlace SavesAtOnce
CHECK_DEADLOCK FALSE
