CONSTANTS
  k1 = k1
  k2 = k2
  k3 = k3
  Key = {k1, k2, k3}
  Zero = Zero
  Junk = Junk
  ModulusBits <- MCModulusBits
  MpiMaxSize = 5
  MayFail = TRUE
  Pk = {p1}
  Rsa = {r1}
  Null = Null
  Free = Free
  Imports = {{"N", "E"}, {"N", "D", "E"}, {"P", "Q", "E"}, {"N", "P", "Q", "D", "E"}}
  PubRawMaxBits = 24
  PkWriteC = TRUE
  PsaCryptoC = TRUE
  Reimport = FALSE
  Retry = TRUE
  LibraryFrees = FALSE
  Blank = Blank
  DerSizes = {10, 11, 18, 30}
  PemDerSize = 22
SPECIFICATION WriterSpec
INVARIANTS
  DerHoldsThePsaKey PemHoldsShortKey
PROPERTIES
  CompletionKeepsThePublicHalf
