SPECIFICATION Spec
CONSTANTS
  v1 = v1
  v2 = v2
  Blank = Blank
  Values <- MCValues
  Size = 2
  Slots = 3
  MaxLoss = 2
  MaxFail = 1
SYMMETRY Symmetry
INVARIANTS TypeOK DurableUnlessTransferHit NoStaleValue ReadableWhenIdle
PROPERTY OnlyCopyNeverErased
