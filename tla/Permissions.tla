---------------------------- MODULE Permissions ----------------------------
(***************************************************************************)
(* A database with users: promotion, authentication, administration, the   *)
(* write transactions of one table with their access checks and seals, and *)
(* remove_user's sweep.  Handles are used by threads that interleave; the  *)
(* engine runs one write transaction at a time.  remove_user and the       *)
(* promotion first list the tables, in a read transaction, and only then   *)
(* begin to write; the one table is there from the start, so they list it. *)
(***************************************************************************)
EXTENDS SealedTree, UserStore

CONSTANTS
  Handle, Opener,        \* database handles, and the first one
  Membership,            \* <<user, group>> pairs that are assigned and unassigned
  Path, DirPath,         \* paths stored at, and made directories
  Move,                  \* <<src, dst>> pairs that are moved and copied
  OwnerGrant, OtherGrant, GroupGrant,  \* rights given with set_acl, by class
  MaxCalls,              \* calls in one write transaction
  Start                  \* what the database holds at first, and how many
                         \* write transactions and other commits follow

ASSUME HandleAssumption == Opener \in Handle

VARIABLES
  users,    \* the permission store
  data,     \* the table, as committed
  inodes,   \* its $inodes rows, as committed
  handles,  \* whom each handle acts for; None before it is opened
  txn,      \* the open write transaction; None
  job,      \* a promotion or removal a handle is at, its tables listed; None
  left      \* how many transactions of each sort may still begin

vars == <<users, data, inodes, handles, txn, job, left>>

Principals == {Unrestricted, Guest} \cup Sessions

ASSUME NoneAssumption == None \notin AclRecord /\ None \notin Principals

ASSUME GrantAssumption == OwnerGrant \cup OtherGrant \cup GroupGrant \subseteq Rights

Job == [op : {"promote", "remove"}, uid : Id, pw : Password]

Idle(h) == job[h] = None

TypeOK ==
  /\ data \in Table
  /\ \A k \in AKey : inodes[k].acl \in AclRecord \cup {None}
  /\ \A h \in Handle : handles[h] = None \/ handles[h] \in Principals
  /\ txn # None => txn.ctx.store \in Store /\ txn.calls \in 0..MaxCalls
  /\ \A h \in Handle : job[h] = None \/ job[h] \in Job
  /\ users \in Stores
  /\ users.next_uid <= MaxId + 1 /\ users.next_gid <= MaxId + 1
  /\ left \in [txns : Nat, admin : Nat]

-----------------------------------------------------------------------------
(* What the permission store, the inodes and the seals are to each other. *)

\* The ACL without the groups that are not among gids.
KeptGroups(acl, gids) ==
  IF acl = None THEN None
  ELSE [acl EXCEPT !.group = [g \in Id |-> IF g \in gids THEN @[g] ELSE NoRights]]

\* An ACL that names groups among gids, or none.
AclWithin(acl, gids) == acl = None \/ (acl \in AclRecord /\ group_ids(acl) \subseteq gids)

\* The ACLs name groups of the store s, and there is none before the promotion.
InodeWithin(i, s) ==
  /\ i = [acl |-> i.acl, seal |-> i.seal]
  /\ AclWithin(i.acl, Gids(s))
  /\ is_protected(s) \/ i.acl = None

InodesWithin(in, s) == in = [k \in AKey |-> in[k]] /\ \A k \in AKey : InodeWithin(in[k], s)

\* The seal is over the entry and over the ACL as it was when sealed: it names groups
\* that existed then, whose ids no later group takes.
WellSealed(e, inode, s) ==
  /\ inode.seal.entry = e
  /\ AclWithin(inode.seal.acl, 0..(s.next_gid - 1))
  /\ inode.acl = KeptGroups(inode.seal.acl, Gids(s))

\* Whom a handle acts for, before the promotion and after it.
ActsFor(h, who, s) ==
  /\ who \in Principals \cup {None}
  /\ IF is_protected(s) THEN who # Unrestricted
                        ELSE who = IF h = Opener THEN Unrestricted ELSE None

\* The database begins as the program can leave it.
ASSUME StartAssumption ==
  \A s \in Start :
    /\ s.users \in Stores
    /\ s.users.next_uid <= MaxId + 1 /\ s.users.next_gid <= MaxId + 1
    /\ is_protected(s.users) => WellFormed(s.users)
    /\ s.handles = [h \in Handle |-> s.handles[h]]
    /\ \A h \in Handle : ActsFor(h, s.handles[h], s.users)
    /\ InodesWithin(s.inodes, s.users)
    /\ is_protected(s.users) =>
         \A k \in AKey : s.data[k] # None => WellSealed(s.data[k], s.inodes[k], s.users)

-----------------------------------------------------------------------------

Init ==
  \E s \in Start :
    /\ users = s.users
    /\ data = s.data
    /\ inodes = s.inodes
    /\ handles = s.handles
    /\ txn = None
    /\ job = [h \in Handle |-> None]
    /\ left = s.left

\* A write transaction that is not WriteTxn begins and commits in one step.
Writes == txn = None /\ left.admin > 0 /\ left' = [left EXCEPT !.admin = @ - 1]

-----------------------------------------------------------------------------
(* Handles.  What only reads the committed database is taken between write    *)
(* transactions (Between): an open one does not change what it reads.        *)

Between == txn = None

\* ArborDb::wrap on a protected database: every handle anew, once all are dropped
\* (a bound: the first time only).
\* An unprotected one is used through its opener alone until it is promoted.
Open ==
  /\ Between
  /\ \A h \in Handle : Idle(h)
  /\ is_protected(users)
  /\ \E h \in Handle : handles[h] = None
  /\ handles' = [h \in Handle |-> Guest]
  /\ UNCHANGED <<users, data, inodes, txn, job, left>>

with_authentication(h, n, pw) ==
  /\ Between /\ Idle(h)
  /\ handles[h] \notin {None, Unrestricted}
  /\ \E u \in authenticate(users, n, pw) :
       handles' = [handles EXCEPT ![h] = Session(u.uid, u.gids)]
  /\ UNCHANGED <<users, data, inodes, txn, job, left>>

\* change_password of an unrestricted handle, up to promote_to_master's write.
PromoteLists(h, pw) ==
  /\ Between /\ Idle(h) /\ left.admin > 0
  /\ handles[h] = Unrestricted
  /\ job' = [job EXCEPT ![h] = [op |-> "promote", uid |-> MASTER_UID, pw |-> pw]]
  /\ UNCHANGED <<users, data, inodes, handles, txn, left>>

\* The table's a-nodes get the master's default ACL and a seal.
Backfilled(k) ==
  IF data[k] # None
    THEN stamp_and_seal(Session(MASTER_UID, {}), k, data[k], inodes[k])
    ELSE inodes[k]

promote_to_master(h) ==
  /\ job[h] # None /\ job[h].op = "promote"
  /\ Writes
  /\ users' \in protect(users, job[h].pw)
  /\ inodes' = [k \in AKey |-> Backfilled(k)]
  /\ handles' = [handles EXCEPT ![h] = Session(MASTER_UID, {MASTER_GID})]
  /\ job' = [job EXCEPT ![h] = None]
  /\ UNCHANGED <<data, txn>>

change_password(h, pw) ==
  /\ Idle(h)
  /\ handles[h] # None /\ is_user(handles[h])
  /\ Writes
  /\ users' \in change_user_password(users, handles[h].uid, pw)
  /\ UNCHANGED <<data, inodes, handles, txn, job>>

-----------------------------------------------------------------------------
(* Administration.  The session decides who is an administrator. *)

Admin(h) == Idle(h) /\ handles[h] # None /\ is_admin(handles[h]) = TRUE

Administer(h, results) ==
  /\ Admin(h)
  /\ Writes
  /\ users' \in results
  /\ users'.next_uid <= MaxId + 1 /\ users'.next_gid <= MaxId + 1
  /\ UNCHANGED <<data, inodes, handles, txn, job>>

AddUser(h) == \E n \in UserName, pw \in Password : Administer(h, add_user(users, n, pw))
AddUserWithGroup(h) ==
  \E n \in UserName, pw \in Password : Administer(h, add_user_with_group(users, n, pw))
AddGroup(h) == \E n \in GroupName : Administer(h, add_group(users, n))
RenameUser(h) == \E m, n \in UserName : Administer(h, rename_user(users, m, n))
RenameGroup(h) == \E m, n \in GroupName : Administer(h, rename_group(users, m, n))
Assign(h) == \E m \in Membership : Administer(h, assign(users, m[1], m[2]))
Unassign(h) == \E m \in Membership : Administer(h, unassign(users, m[1], m[2]))

\* Mutant: the group is left in the ACLs.
strip_group_none(acl, gid) == acl

strip_group(acl, gid) == IF acl = None THEN None ELSE acl_remove_group(acl, gid)

\* The group leaves every user and, without a new seal, every ACL.
remove_group(h, n) ==
  /\ Admin(h)
  /\ Writes
  /\ \E g \in {g \in NamedGroup(users, n) : ~ is_protected_group(g)} :
       /\ users' = drop_group(users, g)
       /\ inodes' = [k \in AKey |-> [inodes[k] EXCEPT !.acl = strip_group(@, g.gid)]]
  /\ UNCHANGED <<data, handles, txn, job>>

\* remove_user up to its write transaction: the uid, then the tables.
RemoveLists(h, n) ==
  /\ Between /\ Admin(h) /\ left.admin > 0
  /\ \E u \in {u \in NamedUser(users, n) : ~ is_protected_user(u)} :
       job' = [job EXCEPT ![h] = [op |-> "remove", uid |-> u.uid,
                                  pw |-> CHOOSE pw \in Password : TRUE]]
  /\ UNCHANGED <<users, data, inodes, handles, txn, left>>

remove_user(h) ==
  LET c == Context(handles[h], NewStore(data, FALSE), inodes)
      uid == job[h].uid
      r == reap_owned(c, uid)
  IN  /\ job[h] # None /\ job[h].op = "remove"
      /\ Writes
      /\ MayReap(c, uid) = TRUE
      /\ data' = r.store.data
      /\ inodes' = r.inodes
      /\ users' = forget_user(users, uid)
      /\ job' = [job EXCEPT ![h] = None]
      /\ UNCHANGED <<handles, txn>>

\* A removal or promotion that the engine or a check refuses.
JobFails(h) ==
  /\ Between /\ ~ Idle(h)
  /\ job' = [job EXCEPT ![h] = None]
  /\ UNCHANGED <<users, data, inodes, handles, txn, left>>

-----------------------------------------------------------------------------
(* Write transactions. *)

Begin(h) ==
  /\ Idle(h)
  /\ handles[h] \notin {None, Guest}
  /\ txn = None
  /\ left.txns > 0
  /\ left' = [left EXCEPT !.txns = @ - 1]
  /\ txn' = [ctx |-> Context(handles[h], NewStore(data, TRUE), inodes), calls |-> 0]
  /\ UNCHANGED <<users, data, inodes, handles, job>>

\* A call that passes its checks and goes through.  (An equation is evaluated as one
\* value; TLC would branch on the disjunctions of a formula.)
Call(may, c) ==
  /\ may = TRUE
  /\ txn' = [ctx |-> c, calls |-> txn.calls + 1]
  /\ UNCHANGED <<users, data, inodes, handles, job, left>>

Ctx == txn.ctx
Calling == txn # None /\ txn.calls < MaxCalls

Mutation(may, r) == r.res = "ok" /\ Call(may, Mutated(Ctx, r.store))

StoreAt(p, v) == Calling /\ Mutation(MayStore(Ctx, p), store_blob_into(Ctx.store, p, v, {}))

Edit(p, v) ==
  LET hint == [key |-> ROOT, epoch |-> Ctx.store.structure + 1] IN
  Calling /\ Mutation(MayEdit(Ctx, p), put_scalar_into(Ctx.store, p, hint, v, {}))

Mkdir(p) == Calling /\ Mutation(MayEnsure(Ctx, p), ensure_dir(Ctx.store, p, {}))

Rm(p) == Calling /\ Mutation(MayRm(Ctx, p), rm_into(Ctx.store, p))

Mv(src, dst) ==
  Calling /\ Mutation(MayMv(Ctx, src, dst), mv_into(Ctx.store, src, dst, {}))

Cp(src, dst) ==
  Calling /\ Mutation(MayCp(Ctx, src, dst), cp_into(Ctx.store, src, dst, {}))

\* The ACL of p becomes what `acl' says.
NewAcl(p, may(_), acl(_)) ==
  LET k == resolve(Ctx.store, p) IN
  /\ Calling
  /\ HasAcl(Ctx, p) = TRUE
  /\ Call(may(Ctx.inodes[k].acl), reseal_integrity(Ctx, k, acl(Ctx.inodes[k].acl)))

Chown(p, n) ==
  \E u \in NamedUser(users, n) :
    NewAcl(p, LAMBDA a : authorize_chown(Ctx.who, a), LAMBDA a : [a EXCEPT !.owner_uid = u.uid])

\* set_acl, add_group and del_group share set_acl_into.
Reclass(p, acl(_)) ==
  NewAcl(p, LAMBDA a : authorize(Ctx.who, resolve(Ctx.store, p), a, Modify), acl)

SetAclOwner(p, r) == Reclass(p, LAMBDA a : [a EXCEPT !.owner = r])
SetAclOther(p, r) == Reclass(p, LAMBDA a : [a EXCEPT !.other = r])
SetAclGroup(p, n, r) ==
  \E g \in NamedGroup(users, n) : Reclass(p, LAMBDA a : set_group_rights(a, g.gid, r))
AclAddGroup(p, n) ==
  \E g \in NamedGroup(users, n) : Reclass(p, LAMBDA a : acl_add_group(a, g.gid))
AclDelGroup(p, n) ==
  \E g \in NamedGroup(users, n) : Reclass(p, LAMBDA a : acl_remove_group(a, g.gid))

\* WriteTxn::commit: the buffered entries are written and sealed.
Commit ==
  LET c == Mutated(Ctx, flush_buffered(Ctx.store)) IN
  /\ txn # None
  /\ data' = c.store.data
  /\ inodes' = c.inodes
  /\ txn' = None
  /\ UNCHANGED <<users, handles, job, left>>

\* A dropped transaction, after an error or by choice.
Abandon ==
  /\ txn # None
  /\ txn' = None
  /\ UNCHANGED <<users, data, inodes, handles, job, left>>

Next ==
  \/ Open
  \/ \E h \in Handle, n \in UserName \cup {"master"}, pw \in Password : with_authentication(h, n, pw)
  \/ \E h \in Handle, pw \in Password : PromoteLists(h, pw) \/ change_password(h, pw)
  \/ \E h \in Handle :
       \/ promote_to_master(h)
       \/ AddUser(h) \/ AddUserWithGroup(h) \/ AddGroup(h) \/ RenameUser(h) \/ RenameGroup(h)
       \/ Assign(h) \/ Unassign(h)
       \/ remove_user(h) \/ JobFails(h)
       \/ Begin(h)
  \/ \E h \in Handle, n \in GroupName : remove_group(h, n)
  \/ \E h \in Handle, n \in UserName : RemoveLists(h, n)
  \/ \E p \in Path, v \in Value : StoreAt(p, v) \/ Edit(p, v)
  \/ \E p \in DirPath : Mkdir(p)
  \/ \E p \in Path : Rm(p)
  \/ \E m \in Move : Mv(m[1], m[2]) \/ Cp(m[1], m[2])
  \/ \E p \in Path, n \in UserName : Chown(p, n)
  \/ \E p \in Path, r \in OwnerGrant : SetAclOwner(p, r)
  \/ \E p \in Path, r \in OtherGrant : SetAclOther(p, r)
  \/ \E p \in Path, n \in GroupName, r \in GroupGrant : SetAclGroup(p, n, r)
  \/ \E p \in Path, n \in GroupName : AclAddGroup(p, n) \/ AclDelGroup(p, n)
  \/ Commit
  \/ Abandon

Spec == Init /\ [][Next]_vars

-----------------------------------------------------------------------------
(* Properties. *)

\* Users and groups are well-formed: ids and names denote one record each, ids lie
\* below the counters, members belong to groups that exist, the master user is
\* there with a password, and the control plane verifies, so that someone can
\* always authenticate (perm::store; every mutation of the store reseals it).
StoreWellFormed == is_protected(users) => WellFormed(users)

\* An id that named a user or a group never names another: a session or an ACL
\* that outlives what it names gives nobody else its rights (next_uid, next_gid).
IdsNotReused ==
  [][is_protected(users) =>
       /\ Uids(users') \cap 0..(users.next_uid - 1) \subseteq Uids(users)
       /\ Gids(users') \cap 0..(users.next_gid - 1) \subseteq Gids(users)]_vars

\* A promotion at work has a password to give, a removal is not of the master.
JobInv ==
  /\ job = [h \in Handle |-> job[h]]
  /\ \A h \in Handle :
       job[h] # None =>
         /\ job[h].op = "promote" => job[h].pw \in Password
         /\ job[h].op = "remove" => job[h].uid # MASTER_UID

\* What makes the two inductive: besides the types, a handle that acts for someone is
\* there only once the database is protected.
StoreInv ==
  /\ users \in Stores
  /\ StoreWellFormed
  /\ \A h \in Handle : handles[h] \in {None, Unrestricted} \/ is_protected(users)
  /\ JobInv

\* ACLs name groups that exist: remove_group strips the group everywhere, in the
\* same transaction, and set_acl looks the group up in its own.
AclGroupsExist ==
  \A k \in AKey : inodes[k].acl # None => group_ids(inodes[k].acl) \subseteq Gids(users)

\* In a protected database every a-node's tags cover its entry and its ACL, but for
\* groups removed since: no sequence of edits, buffered or not, ACL changes,
\* moves, sweeps and promotions leaves an a-node with a tag over anything else.
SealedButForRemovedGroups ==
  is_protected(users) =>
    \A k \in AKey :
      data[k] # None =>
        /\ inodes[k].seal.entry = data[k]
        /\ inodes[k].acl = KeptGroups(inodes[k].seal.acl, Gids(users))

\* Who acts, and what a promotion or removal at work is done by.
HandleInv ==
  /\ handles = [h \in Handle |-> handles[h]]
  /\ \A h \in Handle :
       /\ ActsFor(h, handles[h], users)
       /\ job[h] # None /\ job[h].op = "promote" => h = Opener
       /\ job[h] # None /\ job[h].op = "remove" => handles[h] \in Sessions

\* A transaction of the store s: what it has not buffered is sealed as in the database.
CtxInv(c, s) ==
  /\ c = Context(c.who, c.store, c.inodes)
  /\ c.who \in IF is_protected(s) THEN Sessions ELSE {Unrestricted}
  /\ InodesWithin(c.inodes, s)
  /\ is_protected(s) =>
       \A k \in AKey :
         c.store.data[k] # None /\ c.store.files[k] = None /\ c.store.dirs[k] = None =>
           WellSealed(c.store.data[k], c.inodes[k], s)

\* What makes the seals and the groups in the ACLs inductive, with StoreInv.
SealInv ==
  /\ users.next_uid <= MaxId + 1 /\ users.next_gid <= MaxId + 1
  /\ HandleInv
  /\ InodesWithin(inodes, users)
  /\ is_protected(users) =>
       \A k \in AKey : data[k] # None => WellSealed(data[k], inodes[k], users)
  /\ txn # None => CtxInv(txn.ctx, users)

\* Reading through any open handle never reports tampering: nothing but the library
\* has touched the file (AdbError::Tampered).
NeverTampered ==
  \A h \in Handle, p \in Path : handles[h] # None => load(handles[h], data, inodes, p) # "tampered"

\* The transaction that drops a user leaves nothing that the user owns
\* (ArborDb::remove_user).
RemovedOwnNothing ==
  [][\A i \in Uids(users) \ Uids(users') :
       \A k \in AKey : data'[k] # None /\ inodes'[k].acl # None => inodes'[k].acl.owner_uid # i]_vars

View(c, k) ==
  IF dir_buffered(c.store, k) # None
    THEN DirEntry(dir_buffered(c.store, k)) ELSE with_entry(c.store, k)

\* What a call did to a-node k, the caller had the right to do.
Entitled(c, d, k) ==
  LET e == View(c, k)
      f == View(d, k)
      a == c.inodes[k].acl
      b == d.inodes[k].acl
      holds(j, r) == authorize(c.who, j, c.inodes[j].acl, r)
  IN  /\ e # None /\ f = None => holds(k, Delete)
      /\ e # None /\ f # None /\ e.kind = "file" /\ e # f => holds(k, Modify)
      /\ e # None /\ f # None /\ e.kind = "dir" =>
           /\ f.kind = "dir"
           /\ \A n \in Name :
                e.children[n] # f.children[n] =>
                  /\ f.children[n] # None => holds(k, Modify)
                  /\ e.children[n] # None => holds(e.children[n], Delete)
      /\ e # None /\ f # None /\ a # b => holds(k, Modify) \/ authorize_chown(c.who, a)
      /\ e # None /\ f # None /\ a # None => b # None

\* A call of a write transaction removes only what its caller may delete, overwrites
\* only what it may modify, links only into directories it may modify, unlinks only
\* what it may delete, and never takes an ACL away (the grades of acl::Rights).
Permitted ==
  [][txn # None /\ txn' # None => \A k \in AKey : Entitled(txn.ctx, txn.ctx', k)]_vars

=============================================================================
