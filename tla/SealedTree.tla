----------------------------- MODULE SealedTree -----------------------------
(***************************************************************************)
(* The tree of ArborTree in a protected database: what txn::context checks *)
(* before each mutation and what the mutation does to the $inodes table.   *)
(* A context is a transaction's principal, store and inodes.  A call whose *)
(* checks fail returns an error, upon which the client drops the           *)
(* transaction, so the checks are read off the state the call begins in.   *)
(* An inode's MAC and signature are always written together, over the      *)
(* entry and the ACL: its seal.                                            *)
(***************************************************************************)
EXTENDS Acl

Seal(e, acl) == [entry |-> e, acl |-> acl]
NoInode == [acl |-> None, seal |-> Seal(None, None)]

Context(who, store, inodes) == [who |-> who, store |-> store, inodes |-> inodes]

-----------------------------------------------------------------------------
(* Checks. *)

check(c, k, needed) == authorize(c.who, k, c.inodes[k].acl, needed)

Sealed(e, inode) == inode.seal = Seal(e, inode.acl)

\* read_verified and with_entry: an edit of this transaction is trusted.
verify_integrity(c, k) ==
  \/ ~ is_user(c.who)
  \/ file_get(c.store, k) # None
  \/ c.store.data[k] = None
  \/ Sealed(c.store.data[k], c.inodes[k])

\* child, kind and dir_children also trust a buffered directory.
Readable(c, k) == dir_buffered(c.store, k) # None \/ verify_integrity(c, k)

\* The directories p leads through, as far as it leads.
Traversed(c, p) == {resolve(c.store, SubSeq(p, 1, i)) : i \in 0..(Len(p) - 1)} \ {None}

\* Context::resolve of p, and the lookup of a last name in its directory.
MayResolve(c, p) == \A k \in Traversed(c, p) : check(c, k, Access) /\ Readable(c, k)

\* Mutant: only the a-node itself is checked.
check_deletable_top(c, k) == check(c, k, Delete)

check_deletable(c, k) ==
  \A j \in Subtree(c.store, k) : check(c, j, Delete) /\ Readable(c, j)

\* ensure_dir: a directory made on the way belongs to the caller.
MayEnsure(c, p) ==
  /\ MayResolve(c, p)
  /\ \A i \in 1..Len(p) :
       LET d == resolve(c.store, SubSeq(p, 1, i - 1))
           k == child(c.store, d, p[i])
       IN  d # None => IF k = None THEN check(c, d, Modify) ELSE Readable(c, k)

\* The destination of a mv or cp: its parent modified, what is there deleted.
MayReplace(c, p) ==
  LET d == resolve(c.store, parent(p))
      k == child(c.store, d, name(p))
  IN  /\ MayEnsure(c, parent(p))
      /\ d # None => check(c, d, Modify) /\ Readable(c, d)
      /\ d # None /\ k # None => check_deletable(c, k)

MayStore(c, p) ==
  LET d == resolve(c.store, parent(p))
      k == child(c.store, d, name(p))
  IN  /\ MayEnsure(c, parent(p))
      /\ MayResolve(c, p)
      /\ d # None =>
           IF k # None /\ kind(c.store, k) = "file"
             THEN Readable(c, k) /\ check(c, k, Modify)
             ELSE check(c, d, Modify) /\ (k # None => check_deletable(c, k))

MayRm(c, p) ==
  LET k == resolve(c.store, p) IN MayResolve(c, p) /\ (k # None => check_deletable(c, k))

\* A move asks for Delete on the a-node it moves, not on what is under it.
MayMv(c, src, dst) ==
  LET k == resolve(c.store, src)
  IN  MayResolve(c, src) /\ (k # None => check(c, k, Delete)) /\ MayReplace(c, dst)

MayCp(c, src, dst) ==
  LET k == resolve(c.store, src)
  IN  /\ MayResolve(c, src)
      /\ MayReplace(c, dst)
      /\ k # None => \A j \in Subtree(c.store, k) : check(c, j, Access) /\ Readable(c, j)

MayEdit(c, p) ==
  LET k == resolve(c.store, p)
  IN  /\ MayResolve(c, p)
      /\ IF k = None \/ with_entry(c.store, k) = None
           THEN MayStore(c, p)
           ELSE verify_integrity(c, k) /\ check(c, k, Modify)

\* chown_into and set_acl_into up to their authorisation, which differs.
HasAcl(c, p) ==
  LET k == resolve(c.store, p)
  IN  MayResolve(c, p) /\ k \notin {None, ROOT} /\ verify_integrity(c, k) /\ c.inodes[k].acl # None

-----------------------------------------------------------------------------
(* Effects on the inodes. *)

\* stamp_and_seal, or for an unrestricted handle touch.
stamp_and_seal(who, k, e, inode) ==
  LET acl == IF k # ROOT /\ inode.acl = None THEN default_for(who.uid) ELSE inode.acl
  IN  IF is_user(who) THEN [acl |-> acl, seal |-> Seal(e, acl)] ELSE inode

\* A buffered directory has its ACL at once and its seal at the flush.
stamp_new_dir_acl(who, k, inode) ==
  IF is_user(who) /\ k # ROOT /\ inode.acl = None
    THEN [inode EXCEPT !.acl = default_for(who.uid)] ELSE inode

Present(s, k) == s.data[k] # None \/ s.dirs[k] # None

\* The keys put_entry wrote between the stores s and t: the entry changed, or a
\* buffered edit of it was superseded or flushed.
Written(s, t) ==
  {k \in AKey : /\ t.data[k] # None
                /\ \/ t.data[k] # s.data[k]
                   \/ s.files[k] # None /\ t.files[k] = None
                   \/ s.dirs[k] # None /\ t.dirs[k] = None}

\* The inodes after a mutation took the store from c.store to t: remove_entry
\* forgets an inode, put_entry stamps and seals it, put_dir gives a new directory
\* its ACL.  Keys drawn by the mutation were unused before it.
Effect(c, t) ==
  LET written == Written(c.store, t) IN
  [k \in AKey |->
     CASE Present(c.store, k) /\ ~ Present(t, k) -> NoInode
       [] k \in written -> stamp_and_seal(c.who, k, t.data[k], c.inodes[k])
       [] k \notin written /\ t.dirs[k] # None -> stamp_new_dir_acl(c.who, k, c.inodes[k])
       [] OTHER -> c.inodes[k]]

Mutated(c, t) == Context(c.who, t, Effect(c, t))

\* Mutant: the new ACL is written, the seal left as it was.
reseal_integrity_none(c, k, acl) == [c EXCEPT !.inodes[k].acl = acl]

\* write_acl and reseal_integrity, over the bytes read buffer-first.
reseal_integrity(c, k, acl) ==
  LET e == with_entry(c.store, k)
      seal == IF is_user(c.who) /\ e # None THEN Seal(e, acl) ELSE c.inodes[k].seal
  IN  Context(c.who, c.store, [c.inodes EXCEPT ![k] = [acl |-> acl, seal |-> seal]])

-----------------------------------------------------------------------------
(* remove_user's sweep of a table: write-through, as the administrator.      *)

\* Mutant: directories of other users are not searched.
collect_owned_at_root(c, uid) ==
  {k \in Below(c.store, ROOT) : c.inodes[k].acl # None /\ c.inodes[k].acl.owner_uid = uid}

OwnedBy(c, k, uid) == c.inodes[k].acl # None /\ c.inodes[k].acl.owner_uid = uid

\* The top-most a-nodes the user owns: none of those above them is theirs.
collect_owned(c, uid) ==
  {k \in Subtree(c.store, ROOT) \ {ROOT} :
     /\ OwnedBy(c, k, uid)
     /\ \A j \in AKey : OwnedBy(c, j, uid) /\ k \in Subtree(c.store, j) => j = k}

\* What the sweep reads: everything but the a-nodes under a victim ...
Swept(c, uid) ==
  Subtree(c.store, ROOT) \ UNION {Subtree(c.store, k) : k \in collect_owned(c, uid)}

\* ... and then the victims themselves, as they are deleted.
MayReap(c, uid) ==
  /\ \A k \in Swept(c, uid) : Readable(c, k)
  /\ \A k \in collect_owned(c, uid) : \A j \in Subtree(c.store, k) : Readable(c, j)

Unlinked(m, gone) == [n \in Name |-> IF m[n] \in gone THEN None ELSE m[n]]

\* Every victim is deleted with its subtree and unlinked from its parent.
reap_owned(c, uid) ==
  LET victims == collect_owned(c, uid)
      gone == UNION {Subtree(c.store, k) : k \in victims}
      after(k) == IF k \in gone THEN None
                  ELSE IF c.store.data[k] # None /\ c.store.data[k].kind = "dir"
                         THEN DirEntry(Unlinked(c.store.data[k].children, victims))
                         ELSE c.store.data[k]
  IN  Mutated(c, [c.store EXCEPT !.data = [k \in AKey |-> after(k)]])

-----------------------------------------------------------------------------
(* Reading a committed table through a handle. *)

\* check_tag: the MAC with the key of a session, the signature as the guest.
check_tag(who, e, inode) == who.kind = "unrestricted" \/ Sealed(e, inode)

\* One directory of resolve_enforced.
EnforcedStep(who, data, inodes, r, n) ==
  LET k == r.key IN
  CASE r.res # "ok" -> r
    [] r.res = "ok" /\ ~ authorize(who, k, inodes[k].acl, Access) -> [r EXCEPT !.res = "denied"]
    [] OTHER ->
         IF data[k] = None THEN [r EXCEPT !.res = "absent"]
         ELSE IF ~ check_tag(who, data[k], inodes[k]) THEN [r EXCEPT !.res = "tampered"]
         ELSE IF child_of(data[k], n) = None THEN [r EXCEPT !.res = "absent"]
         ELSE [r EXCEPT !.key = child_of(data[k], n)]

resolve_enforced(who, data, inodes, p) ==
  LET upto[i \in 0..Len(p)] ==
        IF i = 0 THEN [key |-> ROOT, res |-> "ok"]
        ELSE EnforcedStep(who, data, inodes, upto[i - 1], p[i])
  IN  upto[Len(p)]

\* load, load_value, fetch, get: the target is authorised, then verified.
load(who, data, inodes, p) ==
  LET r == resolve_enforced(who, data, inodes, p) IN
  CASE r.res # "ok" -> r.res
    [] r.res = "ok" /\ ~ authorize(who, r.key, inodes[r.key].acl, Access) -> "denied"
    [] OTHER ->
         IF data[r.key] = None THEN "absent"
         ELSE IF ~ check_tag(who, data[r.key], inodes[r.key]) THEN "tampered"
         ELSE "ok"

=============================================================================
