--------------------------- MODULE MCPermissions ---------------------------
(***************************************************************************)
(* Instances of Permissions.  The database begins unprotected, with a file *)
(* that predates the promotion, or protected, with a user in a group and a *)
(* file in a directory, one of them the user's, the other the master's.    *)
(***************************************************************************)
EXTENDS Permissions

CONSTANTS k1, k2, h1, h2

NoHandles == [h \in Handle |-> None]
NoInodes == [k \in AKey |-> NoInode]
NoData == [k \in AKey |-> None]

CONSTANTS v1

OneFile ==
  [NoData EXCEPT ![ROOT] = DirEntry([NoChildren EXCEPT !["a"] = k1]), ![k1] = FileEntry(v1)]

Before(txns, admin) ==
  [users |-> Unprotected, data |-> OneFile, inodes |-> NoInodes,
   handles |-> [NoHandles EXCEPT ![Opener] = Unrestricted],
   left |-> [txns |-> txns, admin |-> admin]]

Pw == CHOOSE pw \in Password : TRUE

\* promote, add_user("alice"), add_group("staff"), assign.
Staffed ==
  seal_control(
    [users |-> {UserRecord("master", 0, FALSE, {0}, Pw), UserRecord("guest", 1, TRUE, {}, NoKeyring),
                UserRecord("alice", 2, FALSE, {2}, Pw)},
     groups |-> {GroupRecord("master", 0), GroupRecord("super", 1), GroupRecord("staff", 2)},
     next_uid |-> 3, next_gid |-> 3, mac |-> <<{}, {}>>])

SharedDir ==
  [NoData EXCEPT ![ROOT] = DirEntry([NoChildren EXCEPT !["a"] = k1]),
                 ![k1] = DirEntry([NoChildren EXCEPT !["b"] = k2]), ![k2] = FileEntry(v1)]

\* The group had been given the directory before the file was stored in it.
AclOf(k, dir, file) ==
  IF k = ROOT THEN None
  ELSE IF k = k1 THEN set_group_rights(default_for(dir), 2, Modify)
  ELSE default_for(file)

After(dir, file, txns, admin) ==
  [users |-> Staffed, data |-> SharedDir,
   inodes |-> [k \in AKey |-> IF SharedDir[k] = None THEN NoInode
                              ELSE [acl |-> AclOf(k, dir, file), seal |-> Seal(SharedDir[k], AclOf(k, dir, file))]],
   handles |-> [NoHandles EXCEPT ![h1] = Session(0, {0}), ![h2] = Session(2, {2})],
   left |-> [txns |-> txns, admin |-> admin]]

\* Long transactions with an administrator at work, or several administrative acts.
Starts ==
  {Before(1, 2), After(MASTER_UID, 2, 1, 1), After(MASTER_UID, 2, 0, 3), After(2, MASTER_UID, 1, 0)}

PathA == <<"a">>
PathAB == <<"a", "b">>
PathB == <<"b">>
Paths == {PathA, PathAB, PathB}
DirPaths == {PathA}
Moves == {<<PathAB, PathB>>, <<PathB, PathAB>>}
Members == {<<"alice", "staff">>, <<"alice", "master">>}

=============================================================================
