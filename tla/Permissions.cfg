\* Two sessions on a database before and after its promotion. It may come to rest: the
\* transactions that may still begin are bounded.
SPECIFICATION Spec
CONSTANTS
  AKey = {root, k1, k2, k3, k4}
  ROOT = root
  k1 = k1
  k2 = k2
  h1 = h1
  h2 = h2
  v1 = v1
  Name = {"a", "b"}
  Value = {v1, v2}
  None = None
  MaxId = 3
  Handle = {h1, h2}
  Opener = h1
  UserName = {"alice", "bob"}
  GroupName = {"staff", "team"}
  Membership <- Members
  Password = {"p", "q"}
  Path <- Paths
  DirPath <- DirPaths
  Move <- Moves
  OwnerGrant = {1}
  OtherGrant = {2}
  GroupGrant = {3}
  MaxCalls = 2
  Start <- Starts
INVARIANTS
  TypeOK
  StoreWellFormed
  AclGroupsExist
  SealedButForRemovedGroups
PROPERTIES
  IdsNotReused
  RemovedOwnNothing
  Permitted
CHECK_DEADLOCK FALSE
