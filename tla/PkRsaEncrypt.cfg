CONSTANTS
  k1 = k1
  k2 = k2
  k3 = k3
  Key = {k1}
  Zero = Zero
  Junk = Junk
  ModulusBits <- MCModulusBits
  MpiMaxSize = 4
  MayFail = FALSE
  Pk = {p1}
  Rsa = {r1}
  Null = Null
  Free = Free
  Imports = {{"N", "E"}, {"N", "D", "E"}, {"P", "Q", "E"}, {"N", "P", "Q", "D", "E"}}
  PubRawMaxBits = 24
  PkWriteC = TRUE
  PsaCryptoC = TRUE
  Reimport = FALSE
  Retry = FALSE
  LibraryFrees = FALSE
SPECIFICATION Spec
INVARIANTS
  EncryptNeedsOnlyPublicHalf
