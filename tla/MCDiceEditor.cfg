CONSTANTS
  Inputs <- NoInput
  Typed <- TypedTexts
  Templates <- TwoTemplates
  Counts = {1}
  Sides = {2}
  Numbers <- OneUpOneDown
  KeepSuffixes = {"dl", "!"}
  MaxDraft = 2
  MaxLen = 3
  MaxDicePerTerm = 3
  MaxTotalDice = 3
  MaxSides = 2
  MaxExplosions = 1
  CritSides = 2
  IntMax = 7
SPECIFICATION EditorSpec
INVARIANTS PreviewAgrees RollsAsDrafted PresetReproduces PresetIsValid PanicOnlyTyped
