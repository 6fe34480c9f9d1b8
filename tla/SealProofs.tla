----------------------------- MODULE SealProofs -----------------------------
(***************************************************************************)
(* In a protected database every a-node's tags cover its entry and its     *)
(* ACL, but for groups removed since, and ACLs name groups that exist: for *)
(* any number of users, groups, a-nodes, handles and transactions.  What   *)
(* a mutation does to the tree does not matter here: whatever store it     *)
(* ends with, the keys it wrote are sealed (Written, Effect).              *)
(***************************************************************************)
EXTENDS PermissionsProofs

-----------------------------------------------------------------------------
(* Handles and jobs. *)

\* The principals differ.
LEMMA PrincipalsDiffer ==
  /\ Unrestricted \notin Sessions /\ Guest \notin Sessions /\ Guest # Unrestricted
  /\ None \notin Sessions /\ None # Unrestricted /\ None # Guest
<1>1. Unrestricted.kind # "user" /\ Guest.kind # "user" /\ Guest # Unrestricted
  BY DEF Unrestricted, Guest
<1>2. \A who \in Sessions : who.kind = "user"
  BY SessionIsUser, Zenon DEF is_user
<1> QED BY <1>1, <1>2, NoneAssumption, Zenon DEF Principals

\* A job of a handle, and what the handle acts for.
JobFits(h, who, j) ==
  /\ j # None /\ j.op = "promote" => h = Opener
  /\ j # None /\ j.op = "remove" => who \in Sessions

\* Handles and jobs stay.
LEMMA HandlesStay ==
  ASSUME HandleInv, handles' = handles, job' = job, is_protected(users') <=> is_protected(users)
  PROVE  HandleInv'
BY Zenon DEF HandleInv, ActsFor

\* A job begins or ends.
LEMMA HandlesJob ==
  ASSUME HandleInv, JobInv, handles' = handles, users' = users \/ (is_protected(users') /\ is_protected(users)),
         NEW h \in Handle, NEW j, job' = [job EXCEPT ![h] = j], JobFits(h, handles[h], j)
  PROVE  HandleInv'
<1>1. \A i \in Handle : job'[i] = IF i = h THEN j ELSE job[i]
  BY Zenon DEF JobInv
<1>2. \A i \in Handle : ActsFor(i, handles'[i], users')
  BY Zenon DEF HandleInv, ActsFor
<1>3. \A i \in Handle : JobFits(i, handles'[i], job'[i])
  BY <1>1, Zenon DEF HandleInv, JobFits
<1> QED BY <1>2, <1>3, Zenon DEF HandleInv, JobFits

\* Someone authenticates.
LEMMA HandlesSession ==
  ASSUME HandleInv, is_protected(users), users' = users, job' = job,
         NEW h \in Handle, job[h] = None, NEW who \in Sessions, handles' = [handles EXCEPT ![h] = who]
  PROVE  HandleInv'
<1>1. handles' = [i \in Handle |-> handles'[i]] /\ \A i \in Handle : handles'[i] = IF i = h THEN who ELSE handles[i]
  BY Zenon DEF HandleInv
<1>2. ASSUME NEW i \in Handle PROVE ActsFor(i, handles'[i], users')
  <2>1. CASE i = h
    BY <1>1, <2>1, PrincipalsDiffer, Zenon DEF ActsFor, Principals
  <2>2. CASE i # h
    BY <1>1, <2>2, Zenon DEF ActsFor, HandleInv
  <2> QED BY <2>1, <2>2
<1>3. \A i \in Handle : JobFits(i, handles'[i], job'[i])
  BY <1>1, Zenon DEF HandleInv, JobFits
<1> QED BY <1>1, <1>2, <1>3, Zenon DEF HandleInv, JobFits

\* The database is promoted: only its opener is there.
LEMMA HandlesPromoted ==
  ASSUME HandleInv, JobInv, ~ is_protected(users), is_protected(users'),
         NEW h \in Handle, job[h] # None, job[h].op = "promote", NEW who \in Sessions,
         handles' = [handles EXCEPT ![h] = who], job' = [job EXCEPT ![h] = None]
  PROVE  HandleInv'
<1>1. handles' = [i \in Handle |-> handles'[i]] /\ \A i \in Handle : handles'[i] = IF i = h THEN who ELSE handles[i]
  BY Zenon DEF HandleInv
<1>2. \A i \in Handle : job'[i] = IF i = h THEN None ELSE job[i]
  BY Zenon DEF JobInv
<1>3. h = Opener
  BY Zenon DEF HandleInv
<1>4. ASSUME NEW i \in Handle PROVE ActsFor(i, handles'[i], users')
  <2>1. CASE i = h
    BY <1>1, <2>1, PrincipalsDiffer, Zenon DEF ActsFor, Principals
  <2>2. CASE i # h
    <3>1. handles'[i] = None
      BY <1>1, <1>3, <2>2, Zenon DEF ActsFor, HandleInv
    <3> QED BY <3>1, PrincipalsDiffer, Zenon DEF ActsFor
  <2> QED BY <2>1, <2>2
<1>5. ASSUME NEW i \in Handle PROVE JobFits(i, handles'[i], job'[i])
  <2>1. CASE i = h
    BY <1>2, <2>1, Zenon DEF JobFits
  <2>2. CASE i # h
    <3>1. JobFits(i, handles[i], job[i])
      BY Zenon DEF JobFits, HandleInv
    <3> QED BY <1>1, <1>2, <2>2, <3>1, Zenon
  <2> QED BY <2>1, <2>2
<1> QED BY <1>1, <1>4, <1>5, Zenon DEF HandleInv, JobFits

\* A session of a user of the store is among the principals.
LEMMA SessionOfUser ==
  ASSUME users \in Stores, WellFormed(users), users.next_uid <= MaxId + 1, users.next_gid <= MaxId + 1,
         NEW u \in users.users
  PROVE  u.uid \in Id /\ Session(u.uid, u.gids) \in Sessions
<1>0. users.next_uid \in Nat /\ users.next_gid \in Nat /\ MaxId \in Nat
  BY MaxIdAssumption, Zenon DEF Stores
<1>1. u.uid \in Id
  <2>1. u.uid \in Nat /\ u.uid < users.next_uid
    BY Zenon DEF Stores, UserRecords, WellFormed
  <2> QED BY <1>0, <2>1 DEF Id
<1>2. ASSUME NEW g \in users.groups PROVE g.gid \in Id
  <2>1. g.gid \in Nat /\ g.gid < users.next_gid
    BY Zenon DEF Stores, GroupRecords, WellFormed
  <2> QED BY <1>0, <2>1 DEF Id
<1>3. u.gids \in SUBSET Id
  <2>1. Gids(users) \subseteq Id
    BY <1>2, Zenon DEF Gids
  <2>2. u.gids \subseteq Gids(users)
    BY Zenon DEF WellFormed
  <2> QED BY <2>1, <2>2
<1> QED BY <1>1, <1>3 DEF Sessions

-----------------------------------------------------------------------------
(* Steps. *)

\* A step that leaves the store and the committed table alone.
LEMMA SealStays ==
  ASSUME SealInv, HandleInv', UNCHANGED <<users, data, inodes>>,
         txn' # None => CtxInv(txn'.ctx, users)
  PROVE  SealInv'
<1>1. users' = users /\ data' = data /\ inodes' = inodes
  BY Zenon
<1> QED BY <1>1, Zenon DEF SealInv

\* Handles are opened, authenticate, and begin or drop a job.
LEMMA HandleSeals ==
  ASSUME StoreInv, SealInv, NEW h \in Handle, NEW n, NEW pw,
         \/ Open \/ with_authentication(h, n, pw) \/ PromoteLists(h, pw)
         \/ RemoveLists(h, n) \/ JobFails(h)
  PROVE  SealInv'
<1>0. HandleInv /\ JobInv
  BY Zenon DEF StoreInv, SealInv
<1>1. UNCHANGED <<users, data, inodes, txn>>
  BY Zenon DEF Open, with_authentication, PromoteLists, RemoveLists, JobFails
<1> SUFFICES HandleInv'
  BY <1>1, SealStays, Zenon DEF SealInv
<1>2. CASE Open
  <2>1. /\ is_protected(users) /\ job' = job /\ handles' = [i \in Handle |-> Guest]
        /\ \A i \in Handle : job[i] = None
    BY <1>2, Zenon DEF Open, Idle
  <2>2. \A i \in Handle : handles'[i] = Guest
    BY <2>1, Zenon
  <2>3. \A i \in Handle : ActsFor(i, handles'[i], users')
    BY <1>1, <2>1, <2>2, PrincipalsDiffer, Zenon DEF ActsFor, Principals
  <2> QED BY <2>1, <2>2, <2>3, Zenon DEF HandleInv
<1>3. CASE with_authentication(h, n, pw)
  <2>1. PICK u \in users.users : handles' = [handles EXCEPT ![h] = Session(u.uid, u.gids)]
    BY <1>3, Zenon DEF with_authentication, authenticate, NamedUser
  <2>2. job' = job /\ job[h] = None /\ handles[h] \notin {None, Unrestricted}
    BY <1>3, Zenon DEF with_authentication, Idle
  <2>3. is_protected(users) /\ users \in Stores /\ WellFormed(users)
    BY <2>2, ActsProtected, Zenon
  <2>4. Session(u.uid, u.gids) \in Sessions
    BY <2>3, SessionOfUser, Zenon DEF SealInv
  <2> QED BY <1>0, <1>1, <2>1, <2>2, <2>3, <2>4, HandlesSession, Zenon
<1>4. CASE PromoteLists(h, pw)
  <2>1. PICK j : /\ j = [op |-> "promote", uid |-> MASTER_UID, pw |-> pw]
                 /\ job' = [job EXCEPT ![h] = j] /\ handles' = handles /\ handles[h] = Unrestricted
    BY <1>4, Zenon DEF PromoteLists
  <2>2. j.op = "promote"
    BY <2>1, Zenon
  <2>3. h = Opener
    BY <1>0, <2>1, PrincipalsDiffer, Zenon DEF HandleInv, ActsFor
  <2>4. JobFits(h, handles[h], j)
    BY <2>2, <2>3, Zenon DEF JobFits
  <2> QED BY <1>0, <1>1, <2>1, <2>4, HandlesJob, Zenon
<1>5. CASE RemoveLists(h, n)
  <2>1. PICK j : j.op = "remove" /\ job' = [job EXCEPT ![h] = j] /\ handles' = handles /\ Admin(h)
    BY <1>5, Zenon DEF RemoveLists
  <2>2. is_user(handles[h])
    BY <2>1, Zenon DEF Admin, is_admin, is_master, in_master_group
  <2>3. handles[h] # None /\ handles[h] # Unrestricted /\ handles[h] # Guest
    BY <2>1, <2>2 DEF Admin, is_user, Unrestricted, Guest
  <2>4. JobFits(h, handles[h], j)
    BY <1>0, <2>1, <2>3, Zenon DEF JobFits, HandleInv, ActsFor, Principals
  <2> QED BY <1>0, <1>1, <2>1, <2>4, HandlesJob, Zenon
<1>6. CASE JobFails(h)
  <2>1. job' = [job EXCEPT ![h] = None] /\ handles' = handles
    BY <1>6, Zenon DEF JobFails
  <2> QED BY <1>0, <1>1, <2>1, HandlesJob, Zenon DEF JobFits
<1> QED BY <1>2, <1>3, <1>4, <1>5, <1>6, Zenon

\* The store grows, or loses a user, and the committed table stays or is sealed for the
\* store as it was.
LEMMA GrownStep ==
  ASSUME users \in Stores, is_protected(users), Keeps(users, users'), Grows(users, users'),
         users'.next_uid <= MaxId + 1 /\ users'.next_gid <= MaxId + 1, HandleInv', txn' = None,
         InodesWithin(inodes', users),
         \A k \in AKey : data'[k] # None => WellSealed(data'[k], inodes'[k], users)
  PROVE  SealInv'
<1>1. InodesWithin(inodes', users')
  BY GrownSeals, Zenon
<1>2. \A k \in AKey : data'[k] # None => WellSealed(data'[k], inodes'[k], users')
  BY GrownSeals, Zenon
<1> QED BY <1>1, <1>2, Zenon DEF SealInv

\* Administration that removes nothing, and a new password.
LEMMA AdminSeals ==
  ASSUME StoreInv, SealInv, AdminStep \/ \E h \in Handle, pw \in Password : change_password(h, pw)
  PROVE  SealInv'
<1>1. AdminStep
  <2>1. ASSUME NEW h \in Handle, NEW pw \in Password, change_password(h, pw) PROVE AdminStep
    <3>1. /\ users' \in change_user_password(users, handles[h].uid, pw)
          /\ txn = None /\ handles[h] # None /\ is_user(handles[h])
          /\ UNCHANGED <<data, inodes, handles, txn, job>>
      BY <2>1, Zenon DEF change_password, Writes
    <3>2. handles[h] # Unrestricted
      BY <3>1 DEF is_user, Unrestricted
    <3>3. is_protected(users) /\ users \in Stores /\ WellFormed(users)
      BY <3>1, <3>2, ActsProtected, Zenon
    <3>4. Keeps(users, users') /\ Grows(users, users')
      BY <3>1, <3>3, ChangePasswordKeeps, Zenon
    <3>5. users'.next_uid = users.next_uid /\ users'.next_gid = users.next_gid
      BY <3>1, <3>3, CountersStay, Zenon
    <3> QED BY <3>1, <3>3, <3>4, <3>5, Zenon DEF AdminStep, SealInv
  <2> QED BY <2>1, Zenon
<1>2. is_protected(users') /\ is_protected(users) /\ handles' = handles /\ job' = job
  BY <1>1, Zenon DEF AdminStep, Keeps
<1>3. HandleInv'
  BY <1>2, HandlesStay, Zenon DEF SealInv
<1>4. /\ InodesWithin(inodes', users) /\ txn' = None
      /\ \A k \in AKey : data'[k] # None => WellSealed(data'[k], inodes'[k], users)
  BY <1>1, <1>2, Zenon DEF AdminStep, SealInv
<1> QED BY <1>1, <1>2, <1>3, <1>4, GrownStep, Zenon DEF AdminStep, StoreInv

\* remove_group strips the group from every ACL and leaves the seals.
LEMMA RemoveGroupSeals ==
  ASSUME StoreInv, SealInv, NEW h \in Handle, NEW n, remove_group(h, n)
  PROVE  SealInv'
<1>1. PICK g \in users.groups :
        /\ users' = drop_group(users, g)
        /\ inodes' = [k \in AKey |-> [inodes[k] EXCEPT !.acl = strip_group(@, g.gid)]]
  BY Zenon DEF remove_group, NamedGroup
<1>2. Admin(h) /\ txn = None /\ data' = data /\ handles' = handles /\ txn' = txn /\ job' = job
  BY Zenon DEF remove_group, Writes
<1>3. is_protected(users) /\ users \in Stores /\ WellFormed(users)
  BY <1>2, AdminProtected, Zenon
<1>4. is_protected(users') /\ users'.next_gid = users.next_gid /\ Gids(users') = Gids(users) \ {g.gid}
  BY <1>1, <1>3, DropGroupKeeps, Zenon DEF Keeps
<1>5. users'.next_uid = users.next_uid
  BY <1>1, <1>3, CountersStay, Zenon
<1>6. ASSUME NEW k \in AKey
      PROVE  InodeWithin(inodes'[k], users') /\ (data[k] # None => WellSealed(data[k], inodes'[k], users'))
  <2>1. inodes'[k] = [inodes[k] EXCEPT !.acl = strip_group(@, g.gid)]
    BY <1>1, Zenon
  <2>2. InodeWithin(inodes[k], users) /\ (data[k] # None => WellSealed(data[k], inodes[k], users))
    BY <1>3, Zenon DEF SealInv, InodesWithin
  <2> QED BY <1>3, <1>4, <2>1, <2>2, StripSeals
<1>7. InodesWithin(inodes', users')
  BY <1>1, <1>6, Zenon DEF InodesWithin
<1>8. HandleInv'
  BY <1>2, <1>3, <1>4, HandlesStay, Zenon DEF SealInv
<1> QED BY <1>2, <1>4, <1>5, <1>6, <1>7, <1>8, Zenon DEF SealInv

\* The promotion gives the table's a-nodes the master's ACL and a seal.
LEMMA PromoteSeals ==
  ASSUME StoreInv, SealInv, NEW h \in Handle, promote_to_master(h)
  PROVE  SealInv'
<1>0. HandleInv /\ JobInv /\ users \in Stores
  BY Zenon DEF StoreInv, SealInv
<1>1. /\ job[h] # None /\ job[h].op = "promote" /\ txn = None /\ data' = data /\ txn' = txn
      /\ users' \in protect(users, job[h].pw) /\ inodes' = [k \in AKey |-> Backfilled(k)]
      /\ handles' = [handles EXCEPT ![h] = Session(MASTER_UID, {MASTER_GID})]
      /\ job' = [job EXCEPT ![h] = None]
  BY Zenon DEF promote_to_master, Writes
<1>2. ~ is_protected(users) /\ job[h].pw \in Password
  BY <1>0, <1>1, Zenon DEF protect, If, JobInv
<1>3. users' \in Stores /\ is_protected(users') /\ WellFormed(users')
  BY <1>0, <1>1, <1>2, ProtectKeeps, Zenon
<1>4. users'.next_uid = users.next_uid /\ users'.next_gid = users.next_gid
  BY <1>0, <1>1, CountersStay, Zenon
<1>5. Session(MASTER_UID, {MASTER_GID}) \in Sessions /\ Session(MASTER_UID, {}) \in Sessions
  <2>1. MASTER_UID \in Id /\ MASTER_GID \in Id
    BY MaxIdAssumption DEF MASTER_UID, MASTER_GID, Id
  <2> QED BY <2>1 DEF Sessions
<1>6. HandleInv'
  BY <1>0, <1>1, <1>2, <1>3, <1>5, HandlesPromoted, Zenon
<1>7. ASSUME NEW k \in AKey
      PROVE  InodeWithin(inodes'[k], users') /\ (data[k] # None => WellSealed(data[k], inodes'[k], users'))
  <2>1. InodeWithin(inodes[k], users) /\ inodes[k].acl = None
    BY <1>2, Zenon DEF SealInv, InodesWithin, InodeWithin
  <2>2. InodeWithin(inodes[k], users')
    BY <2>1, Zenon DEF InodeWithin, AclWithin
  <2>3. CASE data[k] # None
    <3>1. inodes'[k] = stamp_and_seal(Session(MASTER_UID, {}), k, data[k], inodes[k])
      BY <1>1, <2>3, Zenon DEF Backfilled
    <3> QED BY <1>3, <1>5, <2>2, <3>1, StampSeals, Zenon
  <2>4. CASE data[k] = None
    <3>1. inodes'[k] = inodes[k]
      BY <1>1, <2>4, Zenon DEF Backfilled
    <3> QED BY <2>2, <2>4, <3>1, Zenon
  <2> QED BY <2>3, <2>4, Zenon
<1>8. InodesWithin(inodes', users')
  BY <1>1, <1>7, Zenon DEF InodesWithin
<1> QED BY <1>1, <1>4, <1>6, <1>7, <1>8, Zenon DEF SealInv

\* A transaction on the committed table, which has nothing buffered.
LEMMA NewContext ==
  ASSUME SealInv, NEW who, NEW b, who \in IF is_protected(users) THEN Sessions ELSE {Unrestricted}
  PROVE  CtxInv(Context(who, NewStore(data, b), inodes), users)
<1>1. PICK c : c = Context(who, NewStore(data, b), inodes)
  OBVIOUS
<1>2. c.who = who /\ c.store = NewStore(data, b) /\ c.inodes = inodes
  BY <1>1 DEF Context
<1>3. c.store.data = data
  BY <1>2 DEF NewStore
<1> QED BY <1>1, <1>2, <1>3, Zenon DEF CtxInv, SealInv

\* remove_user's sweep is a mutation like the others, and the user is then forgotten.
LEMMA RemoveUserSeals ==
  ASSUME StoreInv, SealInv, NEW h \in Handle, remove_user(h)
  PROVE  SealInv'
<1>0. HandleInv /\ JobInv /\ users \in Stores
  BY Zenon DEF StoreInv, SealInv
<1> DEFINE c == Context(handles[h], NewStore(data, FALSE), inodes)
           r == reap_owned(c, job[h].uid)
<1>1. /\ job[h] # None /\ job[h].op = "remove" /\ txn = None /\ txn' = txn /\ handles' = handles
      /\ data' = r.store.data /\ inodes' = r.inodes
      /\ users' = forget_user(users, job[h].uid) /\ job' = [job EXCEPT ![h] = None]
  BY Zenon DEF remove_user, Writes
<1>2. handles[h] \in Sessions /\ job[h].uid # 0
  BY <1>0, <1>1, Zenon DEF HandleInv, JobInv, MASTER_UID
<1>3. is_protected(users) /\ WellFormed(users)
  BY <1>2, PrincipalsDiffer, ActsProtected, Zenon
<1>4. Keeps(users, users') /\ Grows(users, users')
  BY <1>0, <1>1, <1>2, <1>3, ForgetUserKeeps, Zenon
<1>5. users'.next_uid = users.next_uid /\ users'.next_gid = users.next_gid
  BY <1>0, <1>1, CountersStay, Zenon
<1>6. HandleInv'
  BY <1>0, <1>1, <1>3, <1>4, HandlesJob, Zenon DEF JobFits, Keeps
<1>7. CtxInv(c, users)
  BY <1>2, <1>3, NewContext, Zenon
<1>8. c.store.files = NotBuffered /\ c.store.dirs = NotBuffered
  BY DEF Context, NewStore
<1> HIDE DEF c
<1>9. PICK d : r = Mutated(c, [c.store EXCEPT !.data = d])
  BY Zenon DEF reap_owned
<1>10. PICK t : r = Mutated(c, t) /\ t.files = NotBuffered /\ t.dirs = NotBuffered
  <2>1. c.store = NewStore(data, FALSE)
    BY DEF c, Context
  <2>2. [c.store EXCEPT !.data = d].files = NotBuffered /\ [c.store EXCEPT !.data = d].dirs = NotBuffered
    BY <2>1 DEF NewStore
  <2> QED BY <1>9, <2>2, Zenon
<1>11. CtxInv(r, users) /\ r.store = t
  <2>1. r.store = t
    BY <1>10 DEF Mutated, Context
  <2> QED BY <1>0, <1>3, <1>7, <1>10, <2>1, MutatedKeeps, Zenon
<1> HIDE DEF r
<1>12. /\ InodesWithin(inodes', users)
       /\ \A k \in AKey : data'[k] # None => WellSealed(data'[k], inodes'[k], users)
  <2>1. \A k \in AKey : r.store.files[k] = None /\ r.store.dirs[k] = None
    BY <1>10, <1>11, Zenon DEF NotBuffered
  <2> QED BY <1>1, <1>3, <1>11, <2>1, Zenon DEF CtxInv
<1> QED BY <1>0, <1>1, <1>3, <1>4, <1>5, <1>6, <1>12, GrownStep, Zenon DEF SealInv

\* A write transaction begins, as the handle that begins it.
LEMMA BeginSeals ==
  ASSUME StoreInv, SealInv, NEW h \in Handle, Begin(h)
  PROVE  SealInv'
<1>1. /\ handles[h] \notin {None, Guest} /\ users' = users /\ data' = data /\ inodes' = inodes
      /\ handles' = handles /\ job' = job
      /\ txn' = [ctx |-> Context(handles[h], NewStore(data, TRUE), inodes), calls |-> 0]
  BY Zenon DEF Begin
<1>2. handles[h] \in IF is_protected(users) THEN Sessions ELSE {Unrestricted}
  <2>1. ActsFor(h, handles[h], users)
    BY Zenon DEF SealInv, HandleInv
  <2> QED BY <1>1, <2>1, Zenon DEF ActsFor, Principals
<1>3. CtxInv(Context(handles[h], NewStore(data, TRUE), inodes), users)
  BY <1>2, NewContext, Zenon
<1>4. txn'.ctx = Context(handles[h], NewStore(data, TRUE), inodes)
  BY <1>1
<1>5. HandleInv'
  BY <1>1, HandlesStay, Zenon DEF SealInv
<1> QED BY <1>1, <1>3, <1>4, <1>5, SealStays, Zenon

\* The transaction's next context.
LEMMA CallSeals ==
  ASSUME SealInv, NEW may, NEW c, Call(may, c), CtxInv(c, users)
  PROVE  SealInv'
<1>1. /\ users' = users /\ data' = data /\ inodes' = inodes /\ handles' = handles /\ job' = job
      /\ txn' = [ctx |-> c, calls |-> txn.calls + 1]
  BY Zenon DEF Call
<1>2. txn'.ctx = c
  BY <1>1
<1>3. HandleInv'
  BY <1>1, HandlesStay, Zenon DEF SealInv
<1> QED BY <1>1, <1>2, <1>3, SealStays, Zenon

\* A call that changes the tree.
LEMMA MutationSeals ==
  ASSUME StoreInv, SealInv, txn # None, NEW may, NEW r, Mutation(may, r)
  PROVE  SealInv'
<1>1. Call(may, Mutated(txn.ctx, r.store)) /\ CtxInv(txn.ctx, users)
  BY Zenon DEF Mutation, Ctx, SealInv
<1>2. CtxInv(Mutated(txn.ctx, r.store), users)
  BY <1>1, MutatedKeeps, Zenon DEF StoreInv, StoreWellFormed
<1> QED BY <1>1, <1>2, CallSeals, Zenon

\* A call that changes an ACL: there is one only in a protected database.
LEMMA AclSeals ==
  ASSUME StoreInv, SealInv, txn # None, NEW p, HasAcl(Ctx, p) = TRUE, NEW may, NEW acl,
         LET k == resolve(Ctx.store, p) IN
         /\ Call(may, reseal_integrity(Ctx, k, acl))
         /\ Ctx.inodes[k].acl \in AclRecord /\ group_ids(Ctx.inodes[k].acl) \subseteq Gids(users)
              => AclWithin(acl, Gids(users))
  PROVE  SealInv'
<1>1. PICK k : k = resolve(Ctx.store, p)
  OBVIOUS
<1>2. /\ Ctx.inodes[k].acl # None /\ Call(may, reseal_integrity(Ctx, k, acl))
      /\ Ctx.inodes[k].acl \in AclRecord /\ group_ids(Ctx.inodes[k].acl) \subseteq Gids(users)
           => AclWithin(acl, Gids(users))
  BY <1>1, Zenon DEF HasAcl
<1>3. CtxInv(Ctx, users) /\ users \in Stores /\ (is_protected(users) => WellFormed(users))
  BY Zenon DEF Ctx, SealInv, StoreInv, StoreWellFormed
<1>4. CASE k \in AKey
  <2>1. is_protected(users) /\ AclWithin(Ctx.inodes[k].acl, Gids(users))
    BY <1>2, <1>3, <1>4, Zenon DEF CtxInv, InodesWithin, InodeWithin
  <2>2. AclWithin(acl, Gids(users))
    BY <1>2, <2>1, Zenon DEF AclWithin
  <2>3. CtxInv(reseal_integrity(Ctx, k, acl), users)
    BY <1>3, <2>1, <2>2, ResealKeeps, Zenon
  <2> QED BY <1>2, <2>3, CallSeals, Zenon
<1>5. CASE k \notin AKey
  <2>1. CtxInv(reseal_integrity(Ctx, k, acl), users)
    BY <1>3, <1>5, ResealNowhere, Zenon
  <2> QED BY <1>2, <2>1, CallSeals, Zenon
<1> QED BY <1>4, <1>5, Zenon

\* chown names a user of the store.
LEMMA ChownSeals ==
  ASSUME StoreInv, SealInv, NEW p, NEW n, Chown(p, n) PROVE SealInv'
<1> DEFINE k == resolve(Ctx.store, p)
           a == Ctx.inodes[k].acl
<1>1. PICK u \in users.users :
        /\ txn # None /\ HasAcl(Ctx, p) = TRUE
        /\ Call(authorize_chown(Ctx.who, a), reseal_integrity(Ctx, k, [a EXCEPT !.owner_uid = u.uid]))
  BY Zenon DEF Chown, NamedUser, NewAcl, Calling
<1>2. is_protected(users) /\ WellFormed(users) /\ users \in Stores
  BY Zenon DEF StoreInv, StoreWellFormed, is_protected
<1>3. u.uid \in Id
  BY <1>2, SessionOfUser, Zenon DEF SealInv
<1>4. NoRights \in Rights
  BY DEF NoRights, Rights, Delete
<1>5. a \in AclRecord /\ group_ids(a) \subseteq Gids(users)
        => AclWithin([a EXCEPT !.owner_uid = u.uid], Gids(users))
  BY <1>3, <1>4, FieldEdits, Zenon
<1> QED BY <1>1, <1>5, AclSeals, Zenon

\* set_acl, add_group and del_group grant grades to groups of the store.
LEMMA ReclassSeals ==
  ASSUME StoreInv, SealInv, NEW p,
         \/ \E r \in OwnerGrant : SetAclOwner(p, r)
         \/ \E r \in OtherGrant : SetAclOther(p, r)
         \/ \E n \in GroupName, r \in GroupGrant : SetAclGroup(p, n, r)
         \/ \E n \in GroupName : AclAddGroup(p, n) \/ AclDelGroup(p, n)
  PROVE  SealInv'
<1> DEFINE k == resolve(Ctx.store, p)
           a == Ctx.inodes[k].acl
           Within(b) == a \in AclRecord /\ group_ids(a) \subseteq Gids(users) => AclWithin(b, Gids(users))
           To(b) == /\ txn # None /\ HasAcl(Ctx, p) = TRUE
                    /\ Call(authorize(Ctx.who, k, a, Modify), reseal_integrity(Ctx, k, b))
<1>1. ASSUME NEW b, To(b), Within(b) PROVE SealInv'
  BY <1>1, AclSeals, Zenon
<1>2. 0 \in Id /\ NoRights \in Rights
  BY MaxIdAssumption DEF Id, NoRights, Rights, Delete
<1>3. ASSUME NEW r \in OwnerGrant, SetAclOwner(p, r) PROVE SealInv'
  <2>1. To([a EXCEPT !.owner = r])
    BY <1>3, Zenon DEF SetAclOwner, Reclass, NewAcl, Calling
  <2>2. r \in Rights
    BY GrantAssumption, Zenon
  <2>3. Within([a EXCEPT !.owner = r])
    BY <1>2, <2>2, FieldEdits, Zenon
  <2> QED BY <1>1, <2>1, <2>3, Zenon
<1>4. ASSUME NEW r \in OtherGrant, SetAclOther(p, r) PROVE SealInv'
  <2>1. To([a EXCEPT !.other = r])
    BY <1>4, Zenon DEF SetAclOther, Reclass, NewAcl, Calling
  <2>2. r \in Rights
    BY GrantAssumption, Zenon
  <2>3. Within([a EXCEPT !.other = r])
    BY <1>2, <2>2, FieldEdits, Zenon
  <2> QED BY <1>1, <2>1, <2>3, Zenon
<1>5. ASSUME NEW n, NEW r \in GroupGrant, SetAclGroup(p, n, r) PROVE SealInv'
  <2>1. PICK g \in users.groups : To(set_group_rights(a, g.gid, r))
    BY <1>5, Zenon DEF SetAclGroup, NamedGroup, Reclass, NewAcl, Calling
  <2>2. r \in Rights /\ g.gid \in Gids(users)
    BY GrantAssumption, Zenon DEF Gids
  <2>3. Within(set_group_rights(a, g.gid, r))
    BY <2>2, GroupEdits, Zenon
  <2> QED BY <1>1, <2>1, <2>3, Zenon
<1>6. ASSUME NEW n, AclAddGroup(p, n) PROVE SealInv'
  <2>1. PICK g \in users.groups : To(acl_add_group(a, g.gid))
    BY <1>6, Zenon DEF AclAddGroup, NamedGroup, Reclass, NewAcl, Calling
  <2>2. g.gid \in Gids(users)
    BY Zenon DEF Gids
  <2>3. Within(acl_add_group(a, g.gid))
    BY <1>2, <2>2, GroupEdits, Zenon
  <2> QED BY <1>1, <2>1, <2>3, Zenon
<1>7. ASSUME NEW n, AclDelGroup(p, n) PROVE SealInv'
  <2>1. PICK g \in users.groups : To(acl_remove_group(a, g.gid))
    BY <1>7, Zenon DEF AclDelGroup, NamedGroup, Reclass, NewAcl, Calling
  <2>2. g.gid \in Gids(users)
    BY Zenon DEF Gids
  <2>3. Within(acl_remove_group(a, g.gid))
    BY <1>2, <2>2, GroupEdits, Zenon
  <2> QED BY <1>1, <2>1, <2>3, Zenon
<1> QED BY <1>3, <1>4, <1>5, <1>6, <1>7, Zenon

\* Commit writes and seals what is buffered; nothing is buffered after it.
LEMMA CommitSeals ==
  ASSUME StoreInv, SealInv, Commit PROVE SealInv'
<1> DEFINE t == flush_buffered(txn.ctx.store)
           c == Mutated(txn.ctx, t)
<1>1. /\ txn # None /\ txn' = None /\ data' = c.store.data /\ inodes' = c.inodes
      /\ users' = users /\ handles' = handles /\ job' = job
  BY Zenon DEF Commit, Ctx
<1>2. CtxInv(c, users)
  BY <1>1, MutatedKeeps, Zenon DEF SealInv, StoreInv, StoreWellFormed
<1>3. c.store = t
  <2> HIDE DEF t
  <2> QED BY DEF Mutated, Context
<1>4. t.files = NotBuffered /\ t.dirs = NotBuffered
  BY DEF flush_buffered
<1> HIDE DEF t, c
<1>5. \A k \in AKey : c.store.files[k] = None /\ c.store.dirs[k] = None
  BY <1>3, <1>4, Zenon DEF NotBuffered
<1>6. HandleInv'
  BY <1>1, HandlesStay, Zenon DEF SealInv
<1>7. /\ InodesWithin(inodes', users)
      /\ is_protected(users) => \A k \in AKey : data'[k] # None => WellSealed(data'[k], inodes'[k], users)
  BY <1>1, <1>2, <1>5, Zenon DEF CtxInv
<1> QED BY <1>1, <1>6, <1>7, Zenon DEF SealInv

-----------------------------------------------------------------------------

\* The database begins sealed.
LEMMA InitSeals == Init => SealInv
<1> SUFFICES ASSUME Init PROVE SealInv
  BY Zenon
<1>1. PICK s \in Start :
        /\ users = s.users /\ data = s.data /\ inodes = s.inodes /\ handles = s.handles
        /\ txn = None /\ job = [h \in Handle |-> None]
  BY Zenon DEF Init
<1>2. HandleInv
  BY <1>1, StartAssumption, Zenon DEF HandleInv
<1> QED BY <1>1, <1>2, StartAssumption, Zenon DEF SealInv

\* Every step preserves the invariant.
LEMMA NextSeals == StoreInv /\ SealInv /\ [Next]_vars => SealInv'
<1> SUFFICES ASSUME StoreInv, SealInv, [Next]_vars PROVE SealInv'
  BY Zenon
<1>1. CASE UNCHANGED vars
  <2>1. UNCHANGED <<users, data, inodes, handles, txn, job>>
    BY <1>1, Zenon DEF vars
  <2>2. HandleInv'
    BY <2>1, HandlesStay, Zenon DEF SealInv
  <2> QED BY <2>1, <2>2, SealStays, Zenon DEF SealInv
<1>2. CASE Open
  BY <1>2, HandleAssumption, HandleSeals, Zenon
<1>3. ASSUME NEW h \in Handle, NEW n, NEW pw, with_authentication(h, n, pw) PROVE SealInv'
  BY <1>3, HandleSeals, Zenon
<1>4. ASSUME NEW h \in Handle, NEW pw \in Password, PromoteLists(h, pw) \/ change_password(h, pw)
      PROVE  SealInv'
  BY <1>4, HandleSeals, AdminSeals, Zenon
<1>5. ASSUME NEW h \in Handle,
             \/ promote_to_master(h)
             \/ AddUser(h) \/ AddUserWithGroup(h) \/ AddGroup(h) \/ RenameUser(h) \/ RenameGroup(h)
             \/ Assign(h) \/ Unassign(h)
             \/ remove_user(h) \/ JobFails(h)
             \/ Begin(h)
      PROVE  SealInv'
  BY <1>5, PromoteSeals, AdminSteps, AdminSeals, RemoveUserSeals, HandleSeals, BeginSeals, Zenon
<1>6. ASSUME NEW h \in Handle, NEW n, remove_group(h, n) \/ RemoveLists(h, n) PROVE SealInv'
  BY <1>6, RemoveGroupSeals, HandleSeals, Zenon
<1>7. ASSUME NEW p, NEW v, StoreAt(p, v) \/ Edit(p, v) PROVE SealInv'
  BY <1>7, MutationSeals, Zenon DEF StoreAt, Edit, Calling
<1>8. ASSUME NEW p, Mkdir(p) \/ Rm(p) PROVE SealInv'
  BY <1>8, MutationSeals, Zenon DEF Mkdir, Rm, Calling
<1>9. ASSUME NEW p, NEW q, Mv(p, q) \/ Cp(p, q) PROVE SealInv'
  BY <1>9, MutationSeals, Zenon DEF Mv, Cp, Calling
<1>10. ASSUME \/ \E p \in Path, n \in UserName : Chown(p, n)
              \/ \E p \in Path, r \in OwnerGrant : SetAclOwner(p, r)
              \/ \E p \in Path, r \in OtherGrant : SetAclOther(p, r)
              \/ \E p \in Path, n \in GroupName, r \in GroupGrant : SetAclGroup(p, n, r)
              \/ \E p \in Path, n \in GroupName : AclAddGroup(p, n) \/ AclDelGroup(p, n)
       PROVE  SealInv'
  BY <1>10, ChownSeals, ReclassSeals, Zenon
<1>11. CASE Commit
  BY <1>11, CommitSeals, Zenon
<1>12. CASE Abandon
  <2>1. UNCHANGED <<users, data, inodes, handles, job>> /\ txn' = None
    BY <1>12, Zenon DEF Abandon
  <2>2. HandleInv'
    BY <2>1, HandlesStay, Zenon DEF SealInv
  <2> QED BY <2>1, <2>2, SealStays, Zenon
<1> QED BY <1>1, <1>2, <1>3, <1>4, <1>5, <1>6, <1>7, <1>8, <1>9, <1>10, <1>11, <1>12, Zenon DEF Next

\* The inductive invariant of the seals: the inodes name groups of the store, every
\* committed a-node is well sealed, and so is every a-node of an open transaction that
\* it has not buffered (Context::put_entry, reseal_integrity, remove_group).
THEOREM SealInvariant == Spec => []SealInv
<1>1. Init => SealInv
  BY InitSeals, Zenon
<1>2. StoreInv /\ SealInv /\ [Next]_vars => SealInv'
  BY NextSeals, Zenon
<1> QED BY <1>1, <1>2, StoreInvariant, PTL DEF Spec

\* No ACL of the table names a group that is gone, whatever administrators, sweeps and
\* transactions do (remove_group, set_acl_into).
THEOREM AclGroups == Spec => []AclGroupsExist
<1>1. SealInv => AclGroupsExist
  BY Zenon DEF SealInv, InodesWithin, InodeWithin, AclWithin, AclGroupsExist
<1> QED BY <1>1, SealInvariant, PTL

\* In a protected database every tag is over the entry and the ACL it is read with,
\* groups removed since apart (Context::stamp_and_seal, reseal_integrity, the flush
\* of a commit, the backfill of a promotion, the sweep of a removed user).
THEOREM SealsCover == Spec => []SealedButForRemovedGroups
<1>1. SealInv => SealedButForRemovedGroups
  BY Zenon DEF SealInv, WellSealed, SealedButForRemovedGroups
<1> QED BY <1>1, SealInvariant, PTL

=============================================================================
