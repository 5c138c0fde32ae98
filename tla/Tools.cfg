SPECIFICATION Spec
CONSTANTS
  Mod = {a, b, c, d}
  Lengths <- ToolLengths
  Blocks = {2, 4, 8, 16}
  Mark = 1
  BufSize = 3
  EhdrSize = 2
  PhdrSize = 1
  Chunk = 2
  Sizes = {3, 5, 8}
  Segments <- ToolSegments
  Size = 8
  Marker = 2
  CmdlineMax = 5
  Char = {"a", "b"}
  MaxLen = 5
  MaxRuns = 2
  Width = 6
  ByteBits = 2
  Poly = {0, 1, 4, 5}
  MaxImage = 3
  MaxSigns = 2
  Alphabet = {0, 1}
  OutSizes = {3, 9}
  MatchLengths = {2}
  MaxSent = 6
  Base = 4
  Top = 16
  Total = 8
  Move = 2
  Probs = {"p"}
INVARIANTS MarkAtBoundary SameImage SignedOnce LineInRoom RangeSound DecodesAsSent
PROPERTY DepsFirst
CHECK_DEADLOCK FALSE
