\* The program goes on writing to a copy of what it received.
SPECIFICATION Spec
CONSTANTS
  HeaderSizes = {4, 6}
  Unit = 8
  Items <- MCItems
  MaxItems = 3
  Skips <- MCSkips
  WritesCopies = TRUE
  MaxUnits = 4
  Noise <- MCNoise
PROPERTY WritesAppend
CHECK_DEADLOCK FALSE
