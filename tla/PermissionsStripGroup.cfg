\* The same database: a group is removed while an ACL names it.
SPECIFICATION Spec
CONSTANTS
  AKey = {root, k1, k2, k3, k4}
  ROOT = root
  k1 = k1
  k2 = k2
  h1 = h1
  h2 = h2
  v1 = v1
  Name = {"a", "b"}
  Value = {v1, v2}
  None = None
  MaxId = 3
  Handle = {h1, h2}
  Opener = h1
  UserName = {"alice", "bob"}
  GroupName = {"staff", "team"}
  Membership <- Members
  Password = {"p", "q"}
  Path <- Paths
  DirPath <- DirPaths
  Move <- Moves
  OwnerGrant = {1}
  OtherGrant = {2}
  GroupGrant = {3}
  MaxCalls = 2
  Start <- Starts
INVARIANT
  NeverTampered
CHECK_DEADLOCK FALSE
