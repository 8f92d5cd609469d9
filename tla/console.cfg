SPECIFICATION ConsoleSpec
CONSTANTS
  Reader = {r1, r2}
  NULL = NULL
  NL = "nl"
  NUL = "nul"
  Char <- MCChar
  SIZE = 3
  WIDTH = 2
  HEIGHT = 2
  Text <- MCText
  LEN_BOUND = 2
  TYPED_BOUND = 5
  ROW_BOUND = 6
  W_SPACE = 3
  H_SPACE = 3
  FB_WIDTH = 8
  FB_HEIGHT = 12
  PITCH = 32
  GLYPH_WIDTH = 2
  GLYPH_HEIGHT = 4
  Ink <- MCInk
  PAGE = 16
  PageFault <- MCPageFault
  KernelCrash <- MCKernelCrash
  Terminating <- MCKernelCrash
SYMMETRY Perms
INVARIANTS
  ReadsInOrder
  DeliversOneBuffer
  NoSleepOnLine
  RecursesOnlyBelow
CHECK_DEADLOCK FALSE
