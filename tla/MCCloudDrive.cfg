CONSTANTS
  x = x
  y = y
  a = a
  b = b
  Clients = {u1, u2}
  Admins = {adm}
  AdminName = admin
  Paths <- TreePaths
  DirPaths <- OneDir
  UploadPaths <- MixedFiles
  DownloadPaths <- OneDir
  PartPaths <- PartName
  Inodes = {1, 2, 3, 4, 5}
  Blocks = 1
  OneUploadPerPath = TRUE
  NoMoveUnderUpload = TRUE
SPECIFICATION Spec
SYMMETRY Symmetry
INVARIANTS VisibleWhole PartOwned DownloadIntact
PROPERTY PublishedIsOwn
