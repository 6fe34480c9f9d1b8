\* A transaction begins between an index's commit and its flag.
SPECIFICATION Spec
CONSTANTS
  a = a  b = b  v1 = v1  v2 = v2  k1 = k1  k2 = k2  k3 = k3  k4 = k4
  ROOT = ROOT  None = None  Star = Star  Null = Null
  AKey = {ROOT, k1, k2, k3, k4}
  Name = {a, b}
  Value = {v1, v2}
  StorePath <- Deep
  DirPath <- Flat
  RmPath <- Deep
  CursorPath <- OnlyAB
  Moves <- TreeMoves
  Copies <- TreeMoves
  Pattern <- Entities
  Uniques = {FALSE}
  Column <- WholeValue
  IndexedAtOpen = FALSE
  Redefines = TRUE
  Restarts = TRUE
  DropsOnError = TRUE
  MaxRelinks = 3
  MaxDepth = 2
SYMMETRY Fungible
VIEW ButLast
INVARIANTS IndexInSync
