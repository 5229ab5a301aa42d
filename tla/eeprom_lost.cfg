SPECIFICATION Spec
CONSTANTS
  v1 = v1
  v2 = v2
  Blank = Blank
  Values <- MCValues
  Size = 2
  Slots = 5
  MaxLoss = 1
  MaxFail = 0
INVARIANT ReadLastStored
