SPECIFICATION FairSpec
CONSTANTS
  v1 = v1
  v2 = v2
  Blank = Blank
  Values <- MCValues
  Size = 2
  Slots = 4
  MaxLoss = 0
  MaxFail = 0
PROPERTIES ImplementsStore CallsReturn
