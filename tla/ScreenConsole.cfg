SPECIFICATION FairSpec
CONSTANTS
  Rows = 2
  Cols = 2
  Glyphs = {"a"}
  Colors = {"white", "red"}
  White = "white"
  MaxHistory = 6
INVARIANTS TypeOK CursorStaysOnScreen BootTextExact
