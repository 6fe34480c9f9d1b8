\* Two readers and two writers over three table contents: coherence of the
\* path and blob caches (a reap is a write that is always durable).
SPECIFICATION Spec
CONSTANTS
  k1 = k1
  k2 = k2
  a = a
  b = b
  v1 = v1
  v2 = v2
  i1 = i1
  i2 = i2
  None = None
  ROOT = root
  AKey = {root, k1, k2}
  Name = {a, b}
  Value = {v1, v2}
  Inode = {i1, i2}
  Reader = {r1, r2}
  Writer = {w1, w2}
  Kind = {"reap", "ddl"}
  Path <- MCPath
  Contents <- DataContents
  PathCap = 1
  BlobCap = 1
  InodeCap = 1
  MaxGen = 1
INVARIANTS
  TypeOK
  SameGenerationSameData
  CacheCoherent
  ReadsSeeSnapshot
  VersionInv
SYMMETRY Threads
