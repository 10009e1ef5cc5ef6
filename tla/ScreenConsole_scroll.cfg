SPECIFICATION FairSpec
CONSTANTS
  Rows = 2
  Cols = 2
  Glyphs = {"a"}
  Colors = {"white"}
  White = "white"
  MaxHistory = 2
PROPERTY ScrollIsOneRowUp
