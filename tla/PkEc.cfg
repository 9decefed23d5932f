CONSTANTS
  k1 = k1
  q1 = q1
  q2 = q2
  g1 = g1
  Key = {k1}
  Zero = Zero
  Junk = Junk
  ModulusBits <- MCModulusBits
  MpiMaxSize = 4
  MayFail = TRUE
  Pk = {p1, p2}
  Rsa = {r1}
  Null = Null
  Free = Free
  Imports = {{"N", "D", "E"}}
  PubRawMaxBits = 24
  PkWriteC = TRUE
  PsaCryptoC = TRUE
  Reimport = FALSE
  Retry = FALSE
  LibraryFrees = FALSE
  EcKey = {q1, q2}
  Group = {g1}
  NoGroup = NoGroup
  GroupOf <- MCGroupOf
  Ec = {x1, x2}
  Small = Small
SPECIFICATION EcdhSpec
INVARIANTS
  EcTypeOK EcPairsAreOwned EntriesMatchKind PairIsOfTheKeyOrEmpty
  SecretIsOfTheKey
PROPERTIES
  RsaPartIsPkRsa
