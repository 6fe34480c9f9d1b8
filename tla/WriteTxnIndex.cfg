\* An index on a/*, unique or not, dropped and created again while the flag stands.
SPECIFICATION Spec
CONSTANTS
  a = a  b = b  v1 = v1  v2 = v2  k1 = k1  k2 = k2  k3 = k3  k4 = k4
  ROOT = ROOT  None = None  Star = Star  Null = Null
  AKey = {ROOT, k1, k2, k3}
  Name = {a, b}
  Value = {v1, v2}
  StorePath <- Pair
  DirPath <- Flat
  RmPath <- Pair
  CursorPath <- OnlyAB
  Moves <- PairMoves
  Copies <- FromEntity
  Pattern <- Entities
  Uniques = {FALSE, TRUE}
  Column <- V1Only
  IndexedAtOpen = TRUE
  Redefines = TRUE
  Restarts = FALSE
  DropsOnError = TRUE
  MaxRelinks = 3
  MaxDepth = 2
SYMMETRY Fungible
VIEW ButLast
INVARIANTS IndexInSync UniqueHolds IndexInv
