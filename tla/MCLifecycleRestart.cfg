SPECIFICATION LifeSpec
CONSTANTS
  MaxStarts = 3
INVARIANTS
  BufferOfNextSecond
