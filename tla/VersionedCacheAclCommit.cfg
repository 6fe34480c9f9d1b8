\* With the kinds that rewrite $inodes without the version lock.
SPECIFICATION Spec
CONSTANTS
  k1 = k1
  k2 = k2
  a = a
  b = b
  v1 = v1
  v2 = v2
  i1 = i1
  i2 = i2
  None = None
  ROOT = root
  AKey = {root, k1, k2}
  Name = {a, b}
  Value = {v1, v2}
  Inode = {i1, i2}
  Reader = {r1, r2}
  Writer = {w1, w2}
  Kind = {"write", "acl"}
  Path <- ShortPath
  Contents <- InodeContents
  PathCap = 1
  BlobCap = 2
  InodeCap = 1
  MaxGen = 1
INVARIANTS
  InodeCacheCoherent
