\* Every write is buffered, until an index appears in mid-transaction; reopenings.
\* The client may go on after an error.
SPECIFICATION Spec
CONSTANTS
  a = a  b = b  v1 = v1  v2 = v2  k1 = k1  k2 = k2  k3 = k3  k4 = k4
  ROOT = ROOT  None = None  Star = Star  Null = Null
  AKey = {ROOT, k1, k2, k3}
  Name = {a, b}
  Value = {v1, v2}
  StorePath <- Deep
  DirPath <- OnlyA
  RmPath <- OnlyA
  CursorPath <- OnlyAB
  Moves <- TreeMoves
  Copies <- FromEntity
  Pattern <- Entities
  Uniques = {FALSE}
  Column <- WholeValue
  IndexedAtOpen = FALSE
  Redefines = TRUE
  Restarts = TRUE
  DropsOnError = FALSE
  MaxRelinks = 2
  MaxDepth = 2
SYMMETRY FungibleValues
VIEW ButRows
INVARIANTS TypeOK TreeWellFormed HintSound TreeInv
PROPERTIES ImplementsPathTree
