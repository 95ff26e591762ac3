\* kmain prints a character and a line break while three calls come in.
SPECIFICATION Spec
CONSTANTS
  Screens <- SmallScreens
  FontWidth = 2
  FontHeight = 2
  Glyphs = {"a", "E"}
  Text <- Error
  MaxCalls = 3
INVARIANTS
  CursorOnCell
  GlyphsClipped
PROPERTIES
  ImplementsGrid
CHECK_DEADLOCK FALSE
