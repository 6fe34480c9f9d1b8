-------------------------------- MODULE Acl --------------------------------
(***************************************************************************)
(* Access control on the a-nodes of a table: graded rights, the ACL an     *)
(* inode carries, the principal behind a handle, and the two decisions     *)
(* taken from them (perm::access).                                         *)
(***************************************************************************)
EXTENDS ArborTree, FiniteSets, FiniteSetsExt

CONSTANT MaxId  \* bound on user and group ids

ASSUME MaxIdAssumption == MaxId \in Nat /\ MaxId >= 1

Id == 0..MaxId

MASTER_UID == 0
GUEST_UID == 1
MASTER_GID == 0
SUPER_GID == 1

-----------------------------------------------------------------------------
(* acl::Rights: each grade includes the weaker ones. *)

NoRights == 0
Access == 1
Modify == 2
Delete == 3
Rights == NoRights..Delete

includes(held, needed) == held >= needed

-----------------------------------------------------------------------------
(* inode::Acl.  A group the map lacks has no rights, and none is stored. *)

AclRecord == [owner_uid : Id, owner : Rights, group : [Id -> Rights], other : Rights]

default_for(uid) ==
  [owner_uid |-> uid, owner |-> Delete, group |-> [g \in Id |-> NoRights], other |-> Access]

set_group_rights(acl, gid, r) == [acl EXCEPT !.group[gid] = r]

\* Mutant: adding a group again raises its grade.
acl_add_group_raising(acl, gid) == [acl EXCEPT !.group[gid] = @ + Access]

\* Acl::add_group keeps what the group has.
acl_add_group(acl, gid) == [acl EXCEPT !.group[gid] = IF @ = NoRights THEN Access ELSE @]

acl_remove_group(acl, gid) == [acl EXCEPT !.group[gid] = NoRights]

group_ids(acl) == {g \in Id : acl.group[g] # NoRights}

\* The owner's grade; else the strongest of the shared groups'; else the others'.
effective_rights(acl, uid, gids) ==
  LET shared == gids \cap group_ids(acl)
  IN  IF uid = acl.owner_uid THEN acl.owner
      ELSE IF shared = {} THEN acl.other
      ELSE Max({acl.group[g] : g \in shared})

-----------------------------------------------------------------------------
(* perm::Principal: who a handle acts for.  A session is what the user and  *)
(* its groups were when it was opened.                                      *)

Unrestricted == [kind |-> "unrestricted", uid |-> GUEST_UID, gids |-> {}]
Guest == [kind |-> "guest", uid |-> GUEST_UID, gids |-> {}]
Session(uid, gids) == [kind |-> "user", uid |-> uid, gids |-> gids]
Sessions == {Session(u, g) : u \in Id, g \in SUBSET Id}

is_user(who) == who.kind = "user"
is_master(who) == is_user(who) /\ who.uid = MASTER_UID
in_master_group(who) == is_user(who) /\ MASTER_GID \in who.gids

\* Who may administer: the master user and the members of its group.
is_admin(who) == is_master(who) \/ in_master_group(who)

authorize(who, key, acl, needed) ==
  /\ who.kind = "guest" => needed <= Access
  /\ \/ key = ROOT
     \/ who.kind = "unrestricted"
     \/ is_master(who)
     \/ acl = None /\ in_master_group(who)
     \/ acl # None /\ includes(effective_rights(acl, who.uid, who.gids), needed)

authorize_chown(who, acl) ==
  \/ who.kind = "unrestricted"
  \/ is_admin(who)
  \/ is_user(who) /\ who.uid = acl.owner_uid

=============================================================================
