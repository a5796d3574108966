CONSTANTS
  admin = admin
  p1 = p1
  p2 = p2
  longPassword = longPassword
  Calls = {c1, c2}
  Names = {admin, carol, longName}
  Passwords = {p1, p2, longPassword}
  LongNames = {longName}
  LongPasswords = {longPassword}
  Reads <- MCReads
  Seeds <- MCSeeds
  AccessTTL = 1
  RefreshTTL = 2
  MaxTime = 1
  MaxFaults = 1
SPECIFICATION Spec
SYMMETRY Symmetry
INVARIANTS TypeOK OneOwner CredentialsDecide TokensMatchUsers JarIsOneSession
