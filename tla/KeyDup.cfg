CONSTANTS
  k1 = k1
  k2 = k2
  Key = {k1, k2}
  Zero = Zero
  Junk = Junk
  ModulusBits <- MCModulusBits
  MpiMaxSize = 4
  MayFail = TRUE
  Imports = {{"N", "E"}, {"N", "D", "E"}, {"P", "Q", "E"}}
  Exports = {{"N", "E"}, {"N", "P", "Q", "D", "E"}}
SPECIFICATION Spec
INVARIANTS
  TypeOK ExportedKeyIsWhole DuplicateIsTheKey
