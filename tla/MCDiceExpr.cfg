CONSTANTS
  Inputs <- AllInputs
  MaxLen = 5
  MaxDicePerTerm = 3
  MaxTotalDice = 4
  MaxSides = 3
  MaxExplosions = 2
  CritSides = 3
  IntMax = 7
SPECIFICATION Spec
CHECK_DEADLOCK FALSE
INVARIANTS TypeOK ParsedAsWritten KeepsTheRightDice ExplodesExactly DiceBounded CritMeansOneDie TotalExact
PROPERTIES Terminates EveryPassCounts
