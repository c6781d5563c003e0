CONSTANTS
  written = written
  given = given
  Procs = {p1, p2}
  FileValues = {written}
  EnvValues = {given}
  Default = built_in
  FileTexts <- Texts
  Environments <- Envs
  MaxParts = 1
  OperatorWaits = TRUE
  FileReadable = TRUE
SPECIFICATION Spec
SYMMETRY Symmetry
INVARIANTS EnvNeverPersisted SameSettings LeftoversGone
PROPERTY OperatorFileKept
