CONSTANTS
  k1 = k1
  q1 = q1
  q2 = q2
  g1 = g1
  Key = {k1}
  Zero = Zero
  Junk = Junk
  ModulusBits <- MCModulusBits
  MpiMaxSize = 4
  MayFail = FALSE
  Pk = {p1, p2}
  Rsa = {r1, r2}
  Null = Null
  Free = Free
  Imports = {{"N", "E"}}
  PubRawMaxBits = 24
  PkWriteC = TRUE
  PsaCryptoC = TRUE
  Reimport = TRUE
  Retry = TRUE
  LibraryFrees = TRUE
  EcKey = {q1}
  Group = {g1}
  NoGroup = NoGroup
  GroupOf <- MCGroupOf
  Ec = {x1, x2}
  Small = Small
SPECIFICATION EcdhSpec
INVARIANTS
  EcPairsAreOwned
PROPERTIES
  EcKeyStaysUntilFree
SYMMETRY Symmetry
