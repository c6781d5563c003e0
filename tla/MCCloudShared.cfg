CONSTANTS
  x = x
  y = y
  a = a
  b = b
  Clients = {u1, u2}
  Admins = {adm}
  AdminName = admin
  Paths <- OnePath
  DirPaths <- NoPaths
  UploadPaths <- OnePath
  DownloadPaths <- NoPaths
  PartPaths <- NoPaths
  Inodes = {1, 2, 3}
  Blocks = 2
  OneUploadPerPath = FALSE
  NoMoveUnderUpload = FALSE
SPECIFICATION Spec
SYMMETRY Symmetry
INVARIANT VisibleWhole
