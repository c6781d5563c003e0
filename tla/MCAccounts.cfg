CONSTANTS
  Conns = {c1, c2}
  AdminName = admin
  Names = {admin, alice, bob}
  NoName = noname
  Passwords = {p0, p1}
  SeedPassword = p0
  PresetNames = {k1}
  MaxId = 3
SPECIFICATION Spec
SYMMETRY Symmetry
INVARIANTS IdentityStable AdminBacked PresetOwner
PROPERTIES ApprovedStays PasswordAuthorised RestartKeepsAccounts
