\* Each program of MCCatalog from an empty file: few ids, keys and paths.
SPECIFICATION Spec
VIEW View
CONSTANTS
  None = None
  Err = Err
  IdMax = 2
  Keys = {1, 2, 3}
  Programs <- MCPrograms
  Ladder <- MCLadder
INVARIANTS
  TypeOK
  QueryExact
  RowsExact
  RegistryFaithful
  OnlyCapable
PROPERTY WritesUnderRoot
