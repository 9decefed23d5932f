CONSTANTS
  k1 = k1
  k2 = k2
  k3 = k3
  Key = {k1, k2}
  Zero = Zero
  Junk = Junk
  ModulusBits <- MCModulusBits
  MpiMaxSize = 4
  MayFail = FALSE
  Pk = {p1, p2, p3}
  Rsa = {r1, r2}
  Null = Null
  Free = Free
  Imports = {{"N", "E"}, {"N", "D", "E"}}
  PubRawMaxBits = 24
  PkWriteC = FALSE
  PsaCryptoC = TRUE
  Reimport = FALSE
  Retry = FALSE
  LibraryFrees = FALSE
SPECIFICATION Spec
INVARIANTS
  CacheIsAMap
PROPERTIES
  EntryStaysUntilFree ImplementsLegacyPk
SYMMETRY Symmetry
