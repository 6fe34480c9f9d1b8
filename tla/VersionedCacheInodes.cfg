\* Every kind of commit under the version lock, relaxed durability: the inode
\* cache, and that a read ends although another evicts what it has cached.
SPECIFICATION Spec
CONSTANTS
  k1 = k1
  k2 = k2
  a = a
  b = b
  v1 = v1
  v2 = v2
  i1 = i1
  i2 = i2
  None = None
  ROOT = root
  AKey = {root, k1, k2}
  Name = {a, b}
  Value = {v1, v2}
  Inode = {i1, i2}
  Reader = {r1, r2}
  Writer = {w1}
  Kind = {"write", "access", "ddl"}
  Path <- ShortPath
  Contents <- InodeContents
  PathCap = 1
  BlobCap = 1
  InodeCap = 1
  MaxGen = 1
INVARIANTS
  InodeCacheCoherent
PROPERTIES
  ReadEnds
