\* Up to three values in one pickle, allocated eight bytes at a time.
SPECIFICATION Spec
CONSTANTS
  HeaderSizes = {4, 6}
  Unit = 8
  Items <- MCItems
  MaxItems = 3
  Skips <- MCSkips
  WritesCopies = FALSE
  MaxUnits = 4
  Noise <- MCNoise
INVARIANTS
  RoundTrip
  FitsAllocation
  ReaderStaysInside
  PayloadSurvivesBase64
CHECK_DEADLOCK FALSE
