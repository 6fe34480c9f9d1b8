------------------------- MODULE PermissionsProofs -------------------------
(***************************************************************************)
(* The permission store stays well-formed and no id is used twice, for any *)
(* number of users, groups, handles and transactions.  First what each     *)
(* operation of the store does to a well-formed one (Keeps), then the      *)
(* steps of Permissions; last what an integrity seal is made of and what   *)
(* the removal of a group does to it, which SealProofs builds on.          *)
(***************************************************************************)
EXTENDS Permissions, TLAPS

-----------------------------------------------------------------------------
(* The operations of the permission store. *)

\* t is a store that an operation may make of s.
Keeps(s, t) ==
  /\ t \in Stores
  /\ is_protected(t) /\ WellFormed(t)
  /\ Uids(t) \cap 0..(s.next_uid - 1) \subseteq Uids(s)
  /\ Gids(t) \cap 0..(s.next_gid - 1) \subseteq Gids(s)

\* The groups of s are still there, and the counter has not gone back.
Grows(s, t) == s.next_gid <= t.next_gid /\ Gids(s) \subseteq Gids(t)

\* Groups whose ids and counter stay.
LEMMA SameGrows ==
  ASSUME NEW s \in Stores, NEW t, t.next_gid = s.next_gid, Gids(t) = Gids(s) PROVE Grows(s, t)
<1>1. s.next_gid <= s.next_gid
  BY DEF Stores
<1> QED BY <1>1, Zenon DEF Grows

\* Every operation ends with seal_control: the seal covers what it then holds, and
\* changes nothing else.
LEMMA SealControl ==
  ASSUME NEW s \in Stores
  PROVE  /\ seal_control(s) \in Stores
         /\ verify_control(seal_control(s))
         /\ seal_control(s).users = s.users /\ seal_control(s).groups = s.groups
         /\ seal_control(s).next_uid = s.next_uid /\ seal_control(s).next_gid = s.next_gid
BY Zenon DEF seal_control, verify_control, Stores

\* The store that promote_to_master makes.
LEMMA ProtectKeeps ==
  ASSUME NEW s \in Stores, NEW pw \in Password, NEW t \in protect(s, pw)
  PROVE  t \in Stores /\ is_protected(t) /\ WellFormed(t)
<1> DEFINE m == UserRecord("master", 0, FALSE, {0}, pw)
           g == UserRecord("guest", 1, TRUE, {}, NoKeyring)
           mg == GroupRecord("master", 0)
           sg == GroupRecord("super", 1)
           r == [s EXCEPT !.users = {m, g}, !.groups = {mg, sg}]
<1>1. m \in UserRecords /\ g \in UserRecords /\ mg \in GroupRecords /\ sg \in GroupRecords
  <2>2. {0} \in SUBSET Nat /\ {} \in SUBSET Nat /\ 0 \in Nat /\ 1 \in Nat
    OBVIOUS
  <2>3. m \in UserRecords
    BY <2>2, Zenon DEF UserRecords, UserRecord
  <2>4. g \in UserRecords
    BY <2>2, Zenon DEF UserRecords, UserRecord
  <2>5. mg \in GroupRecords /\ sg \in GroupRecords
    BY <2>2, Zenon DEF GroupRecords, GroupRecord
  <2> QED BY <2>3, <2>4, <2>5, Zenon
<1>2. /\ m.uid = 0 /\ m.name = "master" /\ m.gids = {0} /\ m.keyring = pw
      /\ g.uid = 1 /\ g.name = "guest" /\ g.gids = {}
      /\ mg.gid = 0 /\ mg.name = "master" /\ sg.gid = 1 /\ sg.name = "super"
  BY Zenon DEF UserRecord, GroupRecord
<1>3. t = seal_control(r)
  BY Zenon DEF protect, If
<1> HIDE DEF m, g, mg, sg
<1>4. /\ r \in Stores /\ r.users = {m, g} /\ r.groups = {mg, sg}
      /\ r.next_uid = s.next_uid /\ r.next_gid = s.next_gid
  BY <1>1, Zenon DEF Stores
<1> HIDE DEF r
<1>5. /\ t \in Stores /\ verify_control(t) /\ t.users = {m, g} /\ t.groups = {mg, sg}
      /\ t.next_uid \in Nat \ {0, 1} /\ t.next_gid \in Nat \ {0, 1}
  BY <1>3, <1>4, SealControl, Zenon DEF Stores
<1>6. 0 \in Gids(t)
  BY <1>2, <1>5, Zenon DEF Gids
<1>8. 1 < t.next_uid /\ 0 < t.next_uid /\ 1 < t.next_gid /\ 0 < t.next_gid
  BY <1>5
<1>9. WellFormed(t)
  BY <1>2, <1>5, <1>6, <1>8, PasswordAssumption DEF WellFormed
<1> QED BY <1>5, <1>9, Zenon DEF is_protected

\* A user's record may change in its password, its name or its groups, where the
\* master's stays usable, a new name is free and new groups exist.
LEMMA WithUserKeeps ==
  ASSUME NEW s \in Stores, WellFormed(s), NEW u \in s.users, NEW w \in UserRecords,
         w.uid = u.uid, w.gids \subseteq Gids(s),
         w.name = u.name \/ NamedUser(s, w.name) = {},
         u.uid = 0 => w.name = u.name /\ w.keyring # NoKeyring
  PROVE  Keeps(s, WithUser(s, u, w)) /\ Grows(s, WithUser(s, u, w))
<1> DEFINE r == [s EXCEPT !.users = Replace(s.users, u, w)]
           t == seal_control(r)
<1>1. s.users \in SUBSET UserRecords /\ s.next_uid \in Nat
  BY Zenon DEF Stores
<1>2. /\ r \in Stores /\ r.users = (s.users \ {u}) \cup {w} /\ r.groups = s.groups
      /\ r.next_uid = s.next_uid /\ r.next_gid = s.next_gid
  BY <1>1, Zenon DEF Stores, Replace
<1>3. t = WithUser(s, u, w)
  BY Zenon DEF WithUser
<1> HIDE DEF r
<1>4. /\ t \in Stores /\ verify_control(t) /\ t.users = (s.users \ {u}) \cup {w} /\ t.groups = s.groups
      /\ t.next_uid = s.next_uid /\ t.next_gid = s.next_gid
  BY <1>2, SealControl, Zenon
<1> HIDE DEF t
<1>5. Gids(t) = Gids(s) /\ Uids(t) \subseteq Uids(s)
  BY <1>4, Zenon DEF Gids, Uids
<1>6. ASSUME NEW x \in t.users, NEW y \in t.users, x.uid = y.uid \/ x.name = y.name PROVE x = y
  <2>1. ASSUME NEW z \in s.users, z # u PROVE z.uid # u.uid /\ z.name # u.name /\ z.name # w.name
    BY <2>1, Zenon DEF WellFormed, NamedUser
  <2> QED BY <1>4, <1>6, <2>1 DEF WellFormed
<1>7. \A x \in t.users : x.uid < t.next_uid /\ x.gids \subseteq Gids(t)
  BY <1>4, <1>5, Zenon DEF WellFormed
<1>8. \E x \in t.users : x.uid = 0 /\ x.name = "master" /\ x.keyring # NoKeyring
  <2>1. PICK x \in s.users : x.uid = 0 /\ x.name = "master" /\ x.keyring # NoKeyring
    BY Zenon DEF WellFormed
  <2>2. CASE x = u
    BY <1>4, <2>1, <2>2, Zenon
  <2>3. CASE x # u
    BY <1>4, <2>1, <2>3, Zenon
  <2> QED BY <2>2, <2>3, Zenon
<1>9. WellFormed(t)
  BY <1>4, <1>6, <1>7, <1>8, Zenon DEF WellFormed
<1>10. Grows(s, t)
  BY <1>4, <1>5, SameGrows, Zenon
<1> QED BY <1>3, <1>4, <1>5, <1>8, <1>9, <1>10, Zenon DEF Keeps, is_protected

\* What is added takes the next id and a free name.
LEMMA GrownKeeps ==
  ASSUME NEW s \in Stores, WellFormed(s), NEW t \in Stores, verify_control(t),
         t.next_uid >= s.next_uid, t.next_gid >= s.next_gid,
         s.users \subseteq t.users, s.groups \subseteq t.groups,
         \A u \in t.users \ s.users :
           /\ u.uid = s.next_uid /\ u.uid < t.next_uid /\ u.gids \subseteq Gids(t)
           /\ NamedUser(s, u.name) = {},
         \A u, w \in t.users \ s.users : u = w,
         \A g \in t.groups \ s.groups :
           /\ g.gid = s.next_gid /\ g.gid < t.next_gid
           /\ NamedGroup(s, g.name) = {},
         \A g, f \in t.groups \ s.groups : g = f
  PROVE  Keeps(s, t) /\ Grows(s, t)
<1>1. /\ s.next_uid \in Nat /\ s.next_gid \in Nat /\ t.next_uid \in Nat /\ t.next_gid \in Nat
      /\ \A u \in t.users : u.uid \in Nat
      /\ \A g \in t.groups : g.gid \in Nat
  BY Zenon DEF Stores, UserRecords, GroupRecords
<1>2. \A u, w \in t.users : u.uid = w.uid \/ u.name = w.name => u = w
  <2>1. ASSUME NEW u \in s.users, NEW w \in t.users \ s.users PROVE u.uid # w.uid /\ u.name # w.name
    <3>1. u.uid < s.next_uid /\ w.uid = s.next_uid
      BY <2>1, Zenon DEF WellFormed
    <3>2. u.name # w.name
      BY <2>1, Zenon DEF NamedUser
    <3>3. u.uid # w.uid
      BY <1>1, <3>1
    <3> QED BY <3>2, <3>3, Zenon
  <2> QED BY <2>1, Zenon DEF WellFormed
<1>3. \A g, f \in t.groups : g.gid = f.gid \/ g.name = f.name => g = f
  <2>1. ASSUME NEW g \in s.groups, NEW f \in t.groups \ s.groups PROVE g.gid # f.gid /\ g.name # f.name
    <3>1. g.gid < s.next_gid /\ f.gid = s.next_gid
      BY <2>1, Zenon DEF WellFormed
    <3>2. g.name # f.name
      BY <2>1, Zenon DEF NamedGroup
    <3>3. g.gid # f.gid
      BY <1>1, <3>1
    <3> QED BY <3>2, <3>3, Zenon
  <2> QED BY <2>1, Zenon DEF WellFormed
<1>4. Gids(s) \subseteq Gids(t)
  BY Zenon DEF Gids
<1>5. ASSUME NEW u \in t.users PROVE u.uid < t.next_uid /\ u.gids \subseteq Gids(t)
  <2>1. CASE u \in s.users
    <3>1. u.uid < s.next_uid /\ u.gids \subseteq Gids(s)
      BY <2>1, Zenon DEF WellFormed
    <3>2. u.uid < t.next_uid
      BY <1>1, <3>1
    <3> QED BY <1>4, <3>1, <3>2, Zenon
  <2> QED BY <2>1, Zenon
<1>6. ASSUME NEW g \in t.groups PROVE g.gid < t.next_gid
  <2>1. CASE g \in s.groups
    <3>1. g.gid < s.next_gid
      BY <2>1, Zenon DEF WellFormed
    <3> QED BY <1>1, <3>1
  <2> QED BY <2>1, Zenon
<1>7. \E u \in t.users : u.uid = 0 /\ u.name = "master" /\ u.keyring # NoKeyring
  BY Zenon DEF WellFormed
<1>8. WellFormed(t)
  BY <1>2, <1>3, <1>5, <1>6, <1>7, Zenon DEF WellFormed
<1>9. Uids(t) \cap 0..(s.next_uid - 1) \subseteq Uids(s)
  <2>1. \A u \in t.users : u.uid \in 0..(s.next_uid - 1) => u \in s.users
    BY <1>1
  <2> QED BY <2>1, Zenon DEF Uids
<1>10. Gids(t) \cap 0..(s.next_gid - 1) \subseteq Gids(s)
  <2>1. \A g \in t.groups : g.gid \in 0..(s.next_gid - 1) => g \in s.groups
    BY <1>1
  <2> QED BY <2>1, Zenon DEF Gids
<1>11. Grows(s, t)
  <2>1. s.next_gid <= t.next_gid
    BY <1>1
  <2> QED BY <1>4, <2>1, Zenon DEF Grows
<1> QED BY <1>7, <1>8, <1>9, <1>10, <1>11, Zenon DEF Keeps, is_protected

\* What drops out takes its id along; the master stays.
LEMMA ShrunkKeeps ==
  ASSUME NEW s \in Stores, WellFormed(s), NEW t \in Stores, verify_control(t),
         t.next_uid = s.next_uid, t.next_gid = s.next_gid,
         t.groups \subseteq s.groups,
         NEW f \in [t.users -> s.users],
         \A u \in t.users :
           /\ u.uid = f[u].uid /\ u.name = f[u].name /\ u.keyring = f[u].keyring
           /\ u.gids \subseteq f[u].gids \cap Gids(t),
         \A u, w \in t.users : f[u] = f[w] => u = w,
         \A u \in s.users : u.uid = 0 => \E w \in t.users : f[w] = u
  PROVE  Keeps(s, t)
<1>1. \A u, w \in t.users : u.uid = w.uid \/ u.name = w.name => u = w
  <2> SUFFICES ASSUME NEW u \in t.users, NEW w \in t.users, u.uid = w.uid \/ u.name = w.name PROVE u = w
    BY Zenon
  <2>1. f[u] \in s.users /\ f[w] \in s.users /\ (f[u].uid = f[w].uid \/ f[u].name = f[w].name)
    BY Zenon
  <2>2. f[u] = f[w]
    BY <2>1, Zenon DEF WellFormed
  <2> QED BY <2>2, Zenon
<1>2. \A u \in t.users : u.uid < t.next_uid /\ u.gids \subseteq Gids(t)
  BY DEF WellFormed
<1>3. \E u \in t.users : u.uid = 0 /\ u.name = "master" /\ u.keyring # NoKeyring
  <2>1. PICK u \in s.users : u.uid = 0 /\ u.name = "master" /\ u.keyring # NoKeyring
    BY Zenon DEF WellFormed
  <2>2. PICK w \in t.users : f[w] = u
    BY <2>1, Zenon
  <2> QED BY <2>1, <2>2, Zenon
<1>4. WellFormed(t)
  BY <1>1, <1>2, <1>3, Zenon DEF WellFormed
<1>5. Uids(t) \subseteq Uids(s) /\ Gids(t) \subseteq Gids(s)
  BY DEF Uids, Gids
<1> QED BY <1>3, <1>4, <1>5, Zenon DEF Keeps, is_protected

SetUsers(s, U, a) == [s EXCEPT !.users = U, !.next_uid = a]
SetGroups(s, G, b) == [s EXCEPT !.groups = G, !.next_gid = b]
SetBoth(s, U, G, a, b) == [s EXCEPT !.users = U, !.groups = G, !.next_uid = a, !.next_gid = b]

\* A store whose users, groups or both are replaced, with their counters.
LEMMA WithUsers ==
  ASSUME NEW s \in Stores, NEW U \in SUBSET UserRecords, NEW a \in Nat \ {0, 1},
         NEW r, r = SetUsers(s, U, a)
  PROVE  /\ r \in Stores /\ r.users = U /\ r.groups = s.groups
         /\ r.next_uid = a /\ r.next_gid = s.next_gid
<1> DEFINE N == Nat \ {0, 1}
<1> HIDE DEF N
<1>1. Stores = [users : SUBSET UserRecords, groups : SUBSET GroupRecords, next_uid : N, next_gid : N,
                mac : (SUBSET UserRecords) \X (SUBSET GroupRecords)]
  BY Zenon DEF Stores, N
<1>2. a \in N
  BY Zenon DEF N
<1> QED BY <1>1, <1>2, Zenon DEF SetUsers

\* The same for an operation that replaces the set of group records.
LEMMA WithGroups ==
  ASSUME NEW s \in Stores, NEW G \in SUBSET GroupRecords, NEW b \in Nat \ {0, 1},
         NEW r, r = SetGroups(s, G, b)
  PROVE  /\ r \in Stores /\ r.users = s.users /\ r.groups = G
         /\ r.next_uid = s.next_uid /\ r.next_gid = b
<1> DEFINE N == Nat \ {0, 1}
<1> HIDE DEF N
<1>1. Stores = [users : SUBSET UserRecords, groups : SUBSET GroupRecords, next_uid : N, next_gid : N,
                mac : (SUBSET UserRecords) \X (SUBSET GroupRecords)]
  BY Zenon DEF Stores, N
<1>2. b \in N
  BY Zenon DEF N
<1> QED BY <1>1, <1>2, Zenon DEF SetGroups

\* The same for drop_group, which rewrites the users' memberships with the groups.
LEMMA WithBoth ==
  ASSUME NEW s \in Stores, NEW U \in SUBSET UserRecords, NEW G \in SUBSET GroupRecords,
         NEW a \in Nat \ {0, 1}, NEW b \in Nat \ {0, 1},
         NEW r, r = SetBoth(s, U, G, a, b)
  PROVE  /\ r \in Stores /\ r.users = U /\ r.groups = G
         /\ r.next_uid = a /\ r.next_gid = b
<1> DEFINE N == Nat \ {0, 1}
<1> HIDE DEF N
<1>1. Stores = [users : SUBSET UserRecords, groups : SUBSET GroupRecords, next_uid : N, next_gid : N,
                mac : (SUBSET UserRecords) \X (SUBSET GroupRecords)]
  BY Zenon DEF Stores, N
<1>2. a \in N /\ b \in N
  BY Zenon DEF N
<1> QED BY <1>1, <1>2, Zenon DEF SetBoth

-----------------------------------------------------------------------------
(* One lemma per operation of perm::store. *)

\* add_user: the next uid, a free name, no group.
LEMMA AddUserKeeps ==
  ASSUME NEW s \in Stores, WellFormed(s), NEW n \in UserName, NEW pw \in Password, NEW t \in add_user(s, n, pw)
  PROVE  Keeps(s, t) /\ Grows(s, t)
<1> DEFINE u == UserRecord(n, s.next_uid, FALSE, {}, pw)
<1>1. s.next_uid \in Nat \ {0, 1} /\ s.next_gid \in Nat \ {0, 1}
  BY Zenon DEF Stores
<1>2. u \in UserRecords /\ u.uid = s.next_uid /\ u.name = n /\ u.gids = {}
  BY <1>1, Zenon DEF UserRecords, UserRecord
<1>3. PICK r : /\ r = [s EXCEPT !.users = @ \cup {u}, !.next_uid = @ + 1]
              /\ t = seal_control(r)
              /\ NamedUser(s, n) = {}
  BY Zenon DEF add_user, If
<1> HIDE DEF u
<1>4. /\ r \in Stores /\ r.users = s.users \cup {u} /\ r.groups = s.groups
      /\ r.next_uid = s.next_uid + 1 /\ r.next_gid = s.next_gid
  <2>1. s.next_uid + 1 \in Nat \ {0, 1} /\ s.next_gid + 1 \in Nat \ {0, 1}
    BY <1>1
  <2>2. s.users \in SUBSET UserRecords /\ s.groups \in SUBSET GroupRecords
    BY Zenon DEF Stores
  <2>3. PICK U \in SUBSET UserRecords : U = s.users \cup {u}
    BY <1>2, <2>1, <2>2, Zenon
  <2>4. PICK a \in Nat \ {0, 1} : a = s.next_uid + 1
    BY <1>2, <2>1, <2>2, Zenon
  <2>5. r = SetUsers(s, U, a)
    BY <1>3, <2>3, <2>4, Zenon DEF SetUsers
  <2>6. /\ r \in Stores /\ r.users = U /\ r.groups = s.groups
        /\ r.next_uid = a /\ r.next_gid = s.next_gid
    BY <2>3, <2>4, <2>5, WithUsers
  <2> QED BY <2>3, <2>4, <2>6, Zenon
<1>5. /\ t \in Stores /\ verify_control(t) /\ t.users = s.users \cup {u} /\ t.groups = s.groups
      /\ t.next_uid = s.next_uid + 1 /\ t.next_gid = s.next_gid
  BY <1>3, <1>4, SealControl, Zenon
<1>6. t.next_uid >= s.next_uid /\ t.next_gid >= s.next_gid /\ s.next_uid < t.next_uid
  BY <1>1, <1>5
<1>7. \A x \in t.users \ s.users : x = u
  BY <1>5, Zenon
<1> QED BY <1>2, <1>3, <1>5, <1>6, <1>7, GrownKeeps, Zenon

\* add_user with create_group: the new user's group is new as well.
LEMMA AddUserWithGroupKeeps ==
  ASSUME NEW s \in Stores, WellFormed(s), NEW n \in UserName, NEW pw \in Password,
         NEW t \in add_user_with_group(s, n, pw)
  PROVE  Keeps(s, t) /\ Grows(s, t)
<1> DEFINE u == UserRecord(n, s.next_uid, FALSE, {s.next_gid}, pw)
           g == GroupRecord(n, s.next_gid)
<1>1. s.next_uid \in Nat \ {0, 1} /\ s.next_gid \in Nat \ {0, 1}
  BY Zenon DEF Stores
<1>2. /\ u \in UserRecords /\ u.uid = s.next_uid /\ u.name = n /\ u.gids = {s.next_gid}
      /\ g \in GroupRecords /\ g.gid = s.next_gid /\ g.name = n
  BY <1>1, Zenon DEF UserRecords, UserRecord, GroupRecords, GroupRecord
<1>3. PICK r : /\ r = [s EXCEPT !.users = @ \cup {u}, !.groups = @ \cup {g},
                                         !.next_uid = @ + 1, !.next_gid = @ + 1]
              /\ t = seal_control(r)
              /\ NamedUser(s, n) = {} /\ NamedGroup(s, n) = {}
  BY Zenon DEF add_user_with_group, If
<1> HIDE DEF u, g
<1>4. /\ r \in Stores /\ r.users = s.users \cup {u} /\ r.groups = s.groups \cup {g}
      /\ r.next_uid = s.next_uid + 1 /\ r.next_gid = s.next_gid + 1
  <2>1. s.next_uid + 1 \in Nat \ {0, 1} /\ s.next_gid + 1 \in Nat \ {0, 1}
    BY <1>1
  <2>2. s.users \in SUBSET UserRecords /\ s.groups \in SUBSET GroupRecords
    BY Zenon DEF Stores
  <2>3. PICK U \in SUBSET UserRecords : U = s.users \cup {u}
    BY <1>2, <2>1, <2>2, Zenon
  <2>4. PICK G \in SUBSET GroupRecords : G = s.groups \cup {g}
    BY <1>2, <2>1, <2>2, Zenon
  <2>5. PICK a \in Nat \ {0, 1} : a = s.next_uid + 1
    BY <1>2, <2>1, <2>2, Zenon
  <2>6. PICK b \in Nat \ {0, 1} : b = s.next_gid + 1
    BY <1>2, <2>1, <2>2, Zenon
  <2>7. r = SetBoth(s, U, G, a, b)
    BY <1>3, <2>3, <2>4, <2>5, <2>6, Zenon DEF SetBoth
  <2>8. /\ r \in Stores /\ r.users = U /\ r.groups = G /\ r.next_uid = a /\ r.next_gid = b
    BY <2>3, <2>4, <2>5, <2>6, <2>7, WithBoth
  <2> QED BY <2>3, <2>4, <2>5, <2>6, <2>8, Zenon
<1>5. /\ t \in Stores /\ verify_control(t) /\ t.users = s.users \cup {u} /\ t.groups = s.groups \cup {g}
      /\ t.next_uid = s.next_uid + 1 /\ t.next_gid = s.next_gid + 1
  BY <1>3, <1>4, SealControl, Zenon
<1>6. /\ t.next_uid >= s.next_uid /\ t.next_gid >= s.next_gid
      /\ s.next_uid < t.next_uid /\ s.next_gid < t.next_gid
  BY <1>1, <1>5
<1>7. u.gids \subseteq Gids(t)
  BY <1>2, <1>5, Zenon DEF Gids
<1>8. (\A x \in t.users \ s.users : x = u) /\ (\A x \in t.groups \ s.groups : x = g)
  BY <1>5, Zenon
<1> QED BY <1>2, <1>3, <1>5, <1>6, <1>7, <1>8, GrownKeeps, Zenon

\* add_group: the next gid and a free name.
LEMMA AddGroupKeeps ==
  ASSUME NEW s \in Stores, WellFormed(s), NEW n \in GroupName, NEW t \in add_group(s, n)
  PROVE  Keeps(s, t) /\ Grows(s, t)
<1> DEFINE g == GroupRecord(n, s.next_gid)
<1>1. s.next_uid \in Nat \ {0, 1} /\ s.next_gid \in Nat \ {0, 1}
  BY Zenon DEF Stores
<1>2. g \in GroupRecords /\ g.gid = s.next_gid /\ g.name = n
  BY <1>1, Zenon DEF GroupRecords, GroupRecord
<1>3. PICK r : /\ r = [s EXCEPT !.groups = @ \cup {g}, !.next_gid = @ + 1]
              /\ t = seal_control(r)
              /\ NamedGroup(s, n) = {}
  BY Zenon DEF add_group, If
<1> HIDE DEF g
<1>4. /\ r \in Stores /\ r.users = s.users /\ r.groups = s.groups \cup {g}
      /\ r.next_uid = s.next_uid /\ r.next_gid = s.next_gid + 1
  <2>1. s.next_uid + 1 \in Nat \ {0, 1} /\ s.next_gid + 1 \in Nat \ {0, 1}
    BY <1>1
  <2>2. s.users \in SUBSET UserRecords /\ s.groups \in SUBSET GroupRecords
    BY Zenon DEF Stores
  <2>3. PICK G \in SUBSET GroupRecords : G = s.groups \cup {g}
    BY <1>2, <2>1, <2>2, Zenon
  <2>4. PICK b \in Nat \ {0, 1} : b = s.next_gid + 1
    BY <1>2, <2>1, <2>2, Zenon
  <2>5. r = SetGroups(s, G, b)
    BY <1>3, <2>3, <2>4, Zenon DEF SetGroups
  <2>6. /\ r \in Stores /\ r.users = s.users /\ r.groups = G
        /\ r.next_uid = s.next_uid /\ r.next_gid = b
    BY <2>3, <2>4, <2>5, WithGroups
  <2> QED BY <2>3, <2>4, <2>6, Zenon
<1>5. /\ t \in Stores /\ verify_control(t) /\ t.users = s.users /\ t.groups = s.groups \cup {g}
      /\ t.next_uid = s.next_uid /\ t.next_gid = s.next_gid + 1
  BY <1>3, <1>4, SealControl, Zenon
<1>6. t.next_uid >= s.next_uid /\ t.next_gid >= s.next_gid /\ s.next_gid < t.next_gid
  BY <1>1, <1>5
<1>7. \A x \in t.groups \ s.groups : x = g
  BY <1>5, Zenon
<1> QED BY <1>2, <1>3, <1>5, <1>6, <1>7, GrownKeeps, Zenon

\* change_user_password: the new password is a real one, the master's too.
LEMMA ChangePasswordKeeps ==
  ASSUME NEW s \in Stores, WellFormed(s), NEW uid, NEW pw \in Password, NEW t \in change_user_password(s, uid, pw)
  PROVE  Keeps(s, t) /\ Grows(s, t)
<1>1. PICK u \in s.users : t = WithUser(s, u, [u EXCEPT !.keyring = pw])
  BY Zenon DEF change_user_password
<1> DEFINE w == [u EXCEPT !.keyring = pw]
<1>2. u \in UserRecords /\ u.gids \subseteq Gids(s)
  BY Zenon DEF Stores, WellFormed
<1>3. w \in UserRecords /\ w.uid = u.uid /\ w.name = u.name /\ w.gids = u.gids /\ w.keyring = pw
  BY <1>2, Zenon DEF UserRecords
<1> HIDE DEF w
<1>5. Keeps(s, WithUser(s, u, w)) /\ Grows(s, WithUser(s, u, w))
  BY <1>2, <1>3, WithUserKeeps, PasswordAssumption, Zenon
<1> QED BY <1>1, <1>5, Zenon DEF w

\* rename_user: never the master, and the new name is free.
LEMMA RenameUserKeeps ==
  ASSUME NEW s \in Stores, WellFormed(s), NEW old, NEW new \in UserName, NEW t \in rename_user(s, old, new)
  PROVE  Keeps(s, t) /\ Grows(s, t)
<1>1. PICK u \in s.users : /\ NamedUser(s, new) = {} /\ ~ is_protected_user(u)
                           /\ t = WithUser(s, u, [u EXCEPT !.name = new])
  BY Zenon DEF rename_user, NamedUser
<1> DEFINE w == [u EXCEPT !.name = new]
<1>2. u \in UserRecords /\ u.gids \subseteq Gids(s)
  BY Zenon DEF Stores, WellFormed
<1>3. w \in UserRecords /\ w.uid = u.uid /\ w.name = new /\ w.gids = u.gids
  BY <1>2, Zenon DEF UserRecords
<1>4. u.uid # 0
  BY <1>1 DEF is_protected_user
<1> HIDE DEF w
<1>5. Keeps(s, WithUser(s, u, w)) /\ Grows(s, WithUser(s, u, w))
  BY <1>1, <1>2, <1>3, <1>4, WithUserKeeps, Zenon
<1> QED BY <1>1, <1>5, Zenon DEF w

\* A step that changes nothing.
LEMMA SameKeeps == ASSUME NEW s \in Stores, WellFormed(s) PROVE Keeps(s, s) /\ Grows(s, s)
<1>1. Grows(s, s)
  BY SameGrows, Zenon
<1> QED BY <1>1, Zenon DEF Keeps, WellFormed, is_protected

\* assign and unassign: the group was looked up, so it exists.
LEMMA AssignKeeps ==
  ASSUME NEW s \in Stores, WellFormed(s), NEW m, NEW n, NEW t \in assign(s, m, n) \cup unassign(s, m, n)
  PROVE  Keeps(s, t) /\ Grows(s, t)
<1>1. PICK u \in s.users, g \in s.groups :
        \/ t = s
        \/ t = WithUser(s, u, [u EXCEPT !.gids = @ \cup {g.gid}])
        \/ t = WithUser(s, u, [u EXCEPT !.gids = @ \ {g.gid}])
  <2>1. CASE t \in assign(s, m, n)
    <3>1. PICK u \in {u \in NamedUser(s, m) : ~ u.frozen}, g \in NamedGroup(s, n) :
            t = IF g.gid \in u.gids THEN s ELSE WithUser(s, u, [u EXCEPT !.gids = @ \cup {g.gid}])
      BY <2>1 DEF assign
    <3>2. u \in s.users /\ g \in s.groups
      BY Zenon DEF NamedUser, NamedGroup
    <3> QED BY <3>1, <3>2, Zenon
  <2>2. CASE t \in unassign(s, m, n)
    <3>1. PICK u \in NamedUser(s, m), g \in NamedGroup(s, n) :
            t = IF g.gid \in u.gids THEN WithUser(s, u, [u EXCEPT !.gids = @ \ {g.gid}]) ELSE s
      BY <2>2 DEF unassign
    <3>2. u \in s.users /\ g \in s.groups
      BY Zenon DEF NamedUser, NamedGroup
    <3> QED BY <3>1, <3>2, Zenon
  <2> QED BY <2>1, <2>2, Zenon
<1>2. u \in UserRecords /\ u.gids \subseteq Gids(s) /\ g \in GroupRecords /\ g.gid \in Gids(s)
  BY Zenon DEF Stores, WellFormed, Gids
<1>3. ASSUME NEW gids \in SUBSET Nat, gids \subseteq Gids(s)
      PROVE  Keeps(s, WithUser(s, u, [u EXCEPT !.gids = gids])) /\ Grows(s, WithUser(s, u, [u EXCEPT !.gids = gids]))
  <2> DEFINE w == [u EXCEPT !.gids = gids]
  <2>1. w \in UserRecords /\ w.uid = u.uid /\ w.name = u.name /\ w.gids = gids /\ w.keyring = u.keyring
    BY <1>2, Zenon DEF UserRecords
  <2>2. u.uid = 0 => u.keyring # NoKeyring
    BY Zenon DEF WellFormed
  <2> HIDE DEF w
  <2>3. Keeps(s, WithUser(s, u, w)) /\ Grows(s, WithUser(s, u, w))
    BY <1>3, <2>1, <2>2, WithUserKeeps, Zenon
  <2> QED BY <2>3, Zenon DEF w
<1>4. /\ u.gids \cup {g.gid} \in SUBSET Nat /\ u.gids \cup {g.gid} \subseteq Gids(s)
      /\ u.gids \ {g.gid} \in SUBSET Nat /\ u.gids \ {g.gid} \subseteq Gids(s)
  BY <1>2, Zenon DEF UserRecords, GroupRecords
<1> QED BY <1>1, <1>3, <1>4, SameKeeps, Zenon

\* rename_group: the id stays, the new name is free.
LEMMA RenameGroupKeeps ==
  ASSUME NEW s \in Stores, WellFormed(s), NEW old, NEW new \in GroupName, NEW t \in rename_group(s, old, new)
  PROVE  Keeps(s, t) /\ Grows(s, t)
<1>1. PICK g \in s.groups : NamedGroup(s, new) = {} /\ t = WithGroup(s, g, [g EXCEPT !.name = new])
  BY Zenon DEF rename_group, NamedGroup
<1> DEFINE f == [g EXCEPT !.name = new]
           r == [s EXCEPT !.groups = Replace(s.groups, g, f)]
<1>2. g \in GroupRecords /\ s.groups \in SUBSET GroupRecords
  BY Zenon DEF Stores
<1>3. f \in GroupRecords /\ f.gid = g.gid /\ f.name = new
  BY <1>2, Zenon DEF GroupRecords
<1>4. t = seal_control(r)
  BY <1>1, Zenon DEF WithGroup
<1> HIDE DEF f
<1>5. /\ r \in Stores /\ r.users = s.users /\ r.groups = (s.groups \ {g}) \cup {f}
      /\ r.next_uid = s.next_uid /\ r.next_gid = s.next_gid
  BY <1>2, <1>3, Zenon DEF Stores, Replace
<1> HIDE DEF r
<1>6. /\ t \in Stores /\ verify_control(t) /\ t.users = s.users /\ t.groups = (s.groups \ {g}) \cup {f}
      /\ t.next_uid = s.next_uid /\ t.next_gid = s.next_gid
  BY <1>4, <1>5, SealControl, Zenon
<1>7. Gids(t) = Gids(s) /\ Uids(t) = Uids(s)
  BY <1>3, <1>6, Zenon DEF Gids, Uids
<1>8. ASSUME NEW x \in t.groups, NEW y \in t.groups, x.gid = y.gid \/ x.name = y.name PROVE x = y
  <2>1. ASSUME NEW z \in s.groups, z # g PROVE z.gid # g.gid /\ z.name # new
    BY <1>1, <2>1, Zenon DEF WellFormed, NamedGroup
  <2> QED BY <1>3, <1>6, <1>8, <2>1, Zenon DEF WellFormed
<1>9. \A x \in t.groups : x.gid < t.next_gid
  BY <1>3, <1>6, Zenon DEF WellFormed
<1>10. WellFormed(t)
  BY <1>6, <1>7, <1>8, <1>9, Zenon DEF WellFormed
<1>11. Grows(s, t)
  BY <1>6, <1>7, SameGrows, Zenon
<1> QED BY <1>6, <1>7, <1>10, <1>11, Zenon DEF Keeps, WellFormed, is_protected

\* remove_group takes the id out of every user in the same transaction.
LEMMA DropGroupKeeps ==
  ASSUME NEW s \in Stores, WellFormed(s), NEW g \in s.groups
  PROVE  /\ Keeps(s, drop_group(s, g))
         /\ drop_group(s, g).next_gid = s.next_gid /\ Gids(drop_group(s, g)) = Gids(s) \ {g.gid}
<1> DEFINE Strip(u) == [u EXCEPT !.gids = @ \ {g.gid}]
           U == {Strip(u) : u \in s.users}
           r == [s EXCEPT !.users = U, !.groups = s.groups \ {g}]
           t == seal_control(r)
<1>1. s.users \in SUBSET UserRecords /\ s.groups \in SUBSET GroupRecords
  BY Zenon DEF Stores
<1>2. ASSUME NEW u \in s.users
      PROVE  /\ Strip(u) \in UserRecords /\ Strip(u).uid = u.uid /\ Strip(u).name = u.name
             /\ Strip(u).keyring = u.keyring /\ Strip(u).gids = u.gids \ {g.gid}
  BY <1>1, Zenon DEF UserRecords
<1>3. t = drop_group(s, g)
  BY Zenon DEF drop_group
<1> HIDE DEF Strip
<1>4. U \in SUBSET UserRecords
  BY <1>2, Zenon
<1>5. \A w \in U : \E u \in s.users : w = Strip(u)
  BY Zenon
<1>6. \A u \in s.users : Strip(u) \in U
  BY Zenon
<1> HIDE DEF U
<1>7. /\ r \in Stores /\ r.users = U /\ r.groups = s.groups \ {g}
      /\ r.next_uid = s.next_uid /\ r.next_gid = s.next_gid
  BY <1>1, <1>4, Zenon DEF Stores
<1> HIDE DEF r
<1>8. /\ t \in Stores /\ verify_control(t) /\ t.users = U /\ t.groups = s.groups \ {g}
      /\ t.next_uid = s.next_uid /\ t.next_gid = s.next_gid
  BY <1>7, SealControl, Zenon
<1> HIDE DEF t
<1>9. PICK f : f = [w \in U |-> CHOOSE u \in s.users : w = Strip(u)]
  BY Zenon
<1>10. f \in [U -> s.users] /\ \A w \in U : w = Strip(f[w])
  BY <1>5, <1>9, Zenon
<1>11. Gids(s) \ {g.gid} \subseteq Gids(t)
  BY <1>8, Zenon DEF Gids
<1>12. ASSUME NEW w \in U
       PROVE  /\ w.uid = f[w].uid /\ w.name = f[w].name /\ w.keyring = f[w].keyring
              /\ w.gids \subseteq f[w].gids \cap Gids(t)
  <2>1. f[w] \in s.users /\ w = Strip(f[w])
    BY <1>10, Zenon
  <2>2. f[w].gids \subseteq Gids(s)
    BY <2>1, Zenon DEF WellFormed
  <2> QED BY <1>2, <1>11, <2>1, <2>2, Zenon
<1>13. ASSUME NEW u \in s.users PROVE \E w \in U : f[w] = u
  <2>1. Strip(u) \in U /\ f[Strip(u)] \in s.users /\ f[Strip(u)].uid = u.uid
    BY <1>2, <1>6, <1>10, <1>12, Zenon
  <2>2. f[Strip(u)] = u
    BY <2>1, Zenon DEF WellFormed
  <2> QED BY <2>1, <2>2, Zenon
<1>14. \A u, w \in U : f[u] = f[w] => u = w
  BY <1>10, Zenon
<1>15. Gids(t) = Gids(s) \ {g.gid}
  <2>1. \A f1 \in s.groups : f1.gid = g.gid => f1 = g
    BY Zenon DEF WellFormed
  <2> QED BY <1>8, <2>1 DEF Gids
<1> QED BY <1>3, <1>8, <1>10, <1>12, <1>13, <1>14, <1>15, ShrunkKeeps

\* remove_user's last write: one record goes, and it is not the master's.
LEMMA ForgetUserKeeps ==
  ASSUME NEW s \in Stores, WellFormed(s), NEW uid, uid # 0
  PROVE  Keeps(s, forget_user(s, uid)) /\ Grows(s, forget_user(s, uid))
<1> DEFINE U == {u \in s.users : u.uid # uid}
           r == [s EXCEPT !.users = U]
           t == seal_control(r)
<1>1. U \in SUBSET UserRecords /\ U \subseteq s.users
  BY Zenon DEF Stores
<1>2. t = forget_user(s, uid)
  BY Zenon DEF forget_user
<1>3. \A u \in s.users : u.uid = 0 => u \in U
  BY Zenon
<1> HIDE DEF U
<1>4. /\ r \in Stores /\ r.users = U /\ r.groups = s.groups
      /\ r.next_uid = s.next_uid /\ r.next_gid = s.next_gid
  BY <1>1, Zenon DEF Stores
<1> HIDE DEF r
<1>5. /\ t \in Stores /\ verify_control(t) /\ t.users = U /\ t.groups = s.groups
      /\ t.next_uid = s.next_uid /\ t.next_gid = s.next_gid
  BY <1>4, SealControl, Zenon
<1> HIDE DEF t
<1>6. PICK f : f = [u \in U |-> u]
  BY Zenon
<1>7. f \in [U -> s.users] /\ \A u \in U : f[u] = u
  BY <1>1, <1>6, Zenon
<1>8. \A u \in U : u.gids \subseteq Gids(t)
  BY <1>1, <1>5, Zenon DEF WellFormed, Gids
<1>9. \A u \in U :
        /\ u.uid = f[u].uid /\ u.name = f[u].name /\ u.keyring = f[u].keyring
        /\ u.gids \subseteq f[u].gids \cap Gids(t)
  BY <1>7, <1>8, Zenon
<1>10. (\A u, w \in U : f[u] = f[w] => u = w) /\ \A u \in s.users : u.uid = 0 => \E w \in U : f[w] = u
  BY <1>3, <1>7, Zenon
<1>11. Grows(s, t)
  <2>1. Gids(t) = Gids(s)
    BY <1>5, Zenon DEF Gids
  <2> QED BY <1>5, <2>1, SameGrows, Zenon
<1> QED BY <1>2, <1>5, <1>7, <1>9, <1>10, <1>11, ShrunkKeeps

\* Operations that add no one.
LEMMA CountersStay ==
  ASSUME NEW s \in Stores, NEW t,
         \/ \E pw : t \in protect(s, pw)
         \/ \E uid, pw : t \in change_user_password(s, uid, pw)
         \/ \E g : t = drop_group(s, g)
         \/ \E uid : t = forget_user(s, uid)
  PROVE  t.next_uid = s.next_uid /\ t.next_gid = s.next_gid
<1>1. ASSUME NEW u, NEW g, t = seal_control([s EXCEPT !.users = u, !.groups = g])
      PROVE  t.next_uid = s.next_uid /\ t.next_gid = s.next_gid
  BY <1>1 DEF Stores, seal_control
<1>2. ASSUME NEW u, t = seal_control([s EXCEPT !.users = u])
      PROVE  t.next_uid = s.next_uid /\ t.next_gid = s.next_gid
  BY <1>2 DEF Stores, seal_control
<1>3. \A pw : t \in protect(s, pw) => t.next_uid = s.next_uid /\ t.next_gid = s.next_gid
  BY <1>1, Zenon DEF protect, If
<1>4. \A uid, pw : t \in change_user_password(s, uid, pw) => t.next_uid = s.next_uid /\ t.next_gid = s.next_gid
  BY <1>2, Zenon DEF change_user_password, WithUser
<1>5. \A g : t = drop_group(s, g) => t.next_uid = s.next_uid /\ t.next_gid = s.next_gid
  BY <1>1, Zenon DEF drop_group
<1>6. \A uid : t = forget_user(s, uid) => t.next_uid = s.next_uid /\ t.next_gid = s.next_gid
  BY <1>2, Zenon DEF forget_user
<1> QED BY <1>3, <1>4, <1>5, <1>6, Zenon

-----------------------------------------------------------------------------
(* The steps of Permissions. *)

\* What a step may do to the ids in use.
IdsKept ==
  is_protected(users) =>
    /\ Uids(users') \cap 0..(users.next_uid - 1) \subseteq Uids(users)
    /\ Gids(users') \cap 0..(users.next_gid - 1) \subseteq Gids(users)

\* The store is as it was, has gone through one of its operations, or has just been
\* protected (a removal before that would find no user).
Advances ==
  \/ users' = users
  \/ is_protected(users) /\ Keeps(users, users')
  \/ ~ is_protected(users) /\ users' \in Stores /\ (is_protected(users') => WellFormed(users'))

\* A step that advances the store preserves the invariant and the ids.
LEMMA StepKeeps ==
  ASSUME StoreInv, Advances, handles' = handles \/ is_protected(users'), JobInv'
  PROVE  StoreInv' /\ IdsKept
<1>1. CASE users' = users
  <2>1. users' \in Stores /\ (is_protected(users') => WellFormed(users'))
    BY <1>1, Zenon DEF StoreInv, StoreWellFormed
  <2>2. \A h \in Handle : handles'[h] \in {None, Unrestricted} \/ is_protected(users')
    BY <1>1, Zenon DEF StoreInv
  <2>3. IdsKept
    BY <1>1, Zenon DEF IdsKept
  <2> QED BY <2>1, <2>2, <2>3, Zenon DEF StoreInv, StoreWellFormed
<1>2. CASE is_protected(users) /\ Keeps(users, users')
  <2>1. users' \in Stores /\ is_protected(users') /\ WellFormed(users') /\ IdsKept
    BY <1>2, Zenon DEF Keeps, IdsKept
  <2> QED BY <2>1, Zenon DEF StoreInv, StoreWellFormed
<1>3. CASE ~ is_protected(users) /\ users' \in Stores /\ (is_protected(users') => WellFormed(users'))
  BY <1>3, Zenon DEF StoreInv, StoreWellFormed, IdsKept
<1> QED BY <1>1, <1>2, <1>3, Zenon DEF Advances

\* Jobs that stay as they are.
LEMMA JobStays == ASSUME JobInv, job' = job PROVE JobInv'
BY Zenon DEF JobInv

\* A handle's job begins or ends.
LEMMA JobSet ==
  ASSUME JobInv, NEW h \in Handle, NEW j, job' = [job EXCEPT ![h] = j],
         j # None => /\ j.op = "promote" => j.pw \in Password
                     /\ j.op = "remove" => j.uid # MASTER_UID
  PROVE  JobInv'
BY Zenon DEF JobInv

\* A handle that acts for a user, or for the guest, is there only once the database is
\* protected.
LEMMA ActsProtected ==
  ASSUME StoreInv, NEW h \in Handle, handles[h] \notin {None, Unrestricted}
  PROVE  is_protected(users) /\ users \in Stores /\ WellFormed(users)
BY Zenon DEF StoreInv, StoreWellFormed

\* Only a database with users has administrators.
LEMMA AdminProtected ==
  ASSUME StoreInv, NEW h \in Handle, Admin(h)
  PROVE  is_protected(users) /\ users \in Stores /\ WellFormed(users)
<1>1. handles[h] # None /\ is_user(handles[h])
  BY Zenon DEF Admin, is_admin, is_master, in_master_group
<1>2. handles[h] # Unrestricted
  BY <1>1 DEF is_user, Unrestricted
<1> QED BY <1>1, <1>2, ActsProtected, Zenon

\* Authentication, the start of a promotion, a new password.
LEMMA HandleSteps ==
  ASSUME StoreInv, NEW h \in Handle, NEW n, NEW pw \in Password,
         with_authentication(h, n, pw) \/ PromoteLists(h, pw) \/ change_password(h, pw)
  PROVE  StoreInv' /\ IdsKept
<1>0. JobInv
  BY Zenon DEF StoreInv
<1>2. CASE with_authentication(h, n, pw)
  <2>1. users' = users /\ job' = job /\ handles[h] \notin {None, Unrestricted}
    BY <1>2, Zenon DEF with_authentication
  <2>2. is_protected(users')
    BY <2>1, ActsProtected, Zenon
  <2> QED BY <1>0, <2>1, <2>2, JobStays, StepKeeps, Zenon DEF Advances
<1>3. CASE PromoteLists(h, pw)
  <2>1. PICK j : /\ j = [op |-> "promote", uid |-> MASTER_UID, pw |-> pw]
                 /\ job' = [job EXCEPT ![h] = j]
    BY <1>3, Zenon DEF PromoteLists
  <2>2. j.op = "promote" /\ j.pw = pw
    BY <2>1, Zenon
  <2>3. JobInv'
    BY <1>0, <2>1, <2>2, JobSet, Zenon
  <2>4. users' = users /\ handles' = handles
    BY <1>3, Zenon DEF PromoteLists
  <2> QED BY <2>3, <2>4, StepKeeps, Zenon DEF Advances
<1>5. CASE change_password(h, pw)
  <2>1. /\ users' \in change_user_password(users, handles[h].uid, pw)
        /\ handles' = handles /\ job' = job /\ handles[h] # None /\ is_user(handles[h])
    BY <1>5, Zenon DEF change_password
  <2>2. handles[h] # Unrestricted
    BY <2>1 DEF is_user, Unrestricted
  <2>3. is_protected(users) /\ Keeps(users, users')
    BY <2>1, <2>2, ActsProtected, ChangePasswordKeeps, Zenon
  <2> QED BY <1>0, <2>1, <2>3, JobStays, StepKeeps, Zenon DEF Advances
<1> QED BY <1>2, <1>3, <1>5, Zenon

\* promote_to_master's write makes the first well-formed store.
LEMMA PromoteStep ==
  ASSUME StoreInv, NEW h \in Handle, promote_to_master(h)
  PROVE  StoreInv' /\ IdsKept
<1>0. JobInv
  BY Zenon DEF StoreInv
<1>1. users' \in protect(users, job[h].pw) /\ job[h].pw \in Password
  BY <1>0, Zenon DEF promote_to_master, JobInv
<1>2. ~ is_protected(users)
  BY <1>1, Zenon DEF protect, If
<1>3. users' \in Stores /\ is_protected(users') /\ WellFormed(users')
  BY <1>1, ProtectKeeps, Zenon DEF StoreInv
<1>4. JobInv'
  BY <1>0, JobSet, Zenon DEF promote_to_master
<1> QED BY <1>2, <1>3, <1>4, StepKeeps, Zenon DEF Advances

\* What an administrator's call does that removes nothing from the store.
AdminStep ==
  /\ txn = None /\ is_protected(users) /\ Keeps(users, users') /\ Grows(users, users')
  /\ users'.next_uid <= MaxId + 1 /\ users'.next_gid <= MaxId + 1
  /\ UNCHANGED <<data, inodes, handles, txn, job>>

\* An administrator's call, given what its operation does to the store.
LEMMA AdministerKeeps ==
  ASSUME StoreInv, NEW h \in Handle, NEW results, Administer(h, results),
         \A t \in results :
           users \in Stores /\ WellFormed(users) => Keeps(users, t) /\ Grows(users, t)
  PROVE  AdminStep
<1>1. is_protected(users) /\ users \in Stores /\ WellFormed(users) /\ users' \in results
  BY AdminProtected, Zenon DEF Administer
<1> QED BY <1>1, Zenon DEF Administer, AdminStep, Writes

\* The calls that administer users and groups.
LEMMA AdminSteps ==
  ASSUME StoreInv, NEW h \in Handle,
         \/ AddUser(h) \/ AddUserWithGroup(h) \/ AddGroup(h) \/ RenameUser(h) \/ RenameGroup(h)
         \/ Assign(h) \/ Unassign(h)
  PROVE  AdminStep
<1>1. CASE AddUser(h)
  <2>1. PICK n \in UserName, pw \in Password : Administer(h, add_user(users, n, pw))
    BY <1>1, Zenon DEF AddUser
  <2>2. \A t \in add_user(users, n, pw) :
          users \in Stores /\ WellFormed(users) => Keeps(users, t) /\ Grows(users, t)
    BY AddUserKeeps, Zenon
  <2> QED BY <2>1, <2>2, AdministerKeeps, Zenon
<1>2. CASE AddUserWithGroup(h)
  <2>1. PICK n \in UserName, pw \in Password : Administer(h, add_user_with_group(users, n, pw))
    BY <1>2, Zenon DEF AddUserWithGroup
  <2>2. \A t \in add_user_with_group(users, n, pw) :
          users \in Stores /\ WellFormed(users) => Keeps(users, t) /\ Grows(users, t)
    BY AddUserWithGroupKeeps, Zenon
  <2> QED BY <2>1, <2>2, AdministerKeeps, Zenon
<1>3. CASE AddGroup(h)
  <2>1. PICK n \in GroupName : Administer(h, add_group(users, n))
    BY <1>3, Zenon DEF AddGroup
  <2>2. \A t \in add_group(users, n) :
          users \in Stores /\ WellFormed(users) => Keeps(users, t) /\ Grows(users, t)
    BY AddGroupKeeps, Zenon
  <2> QED BY <2>1, <2>2, AdministerKeeps, Zenon
<1>4. CASE RenameUser(h)
  <2>1. PICK m \in UserName, n \in UserName : Administer(h, rename_user(users, m, n))
    BY <1>4, Zenon DEF RenameUser
  <2>2. \A t \in rename_user(users, m, n) :
          users \in Stores /\ WellFormed(users) => Keeps(users, t) /\ Grows(users, t)
    BY RenameUserKeeps, Zenon
  <2> QED BY <2>1, <2>2, AdministerKeeps, Zenon
<1>5. CASE RenameGroup(h)
  <2>1. PICK m \in GroupName, n \in GroupName : Administer(h, rename_group(users, m, n))
    BY <1>5, Zenon DEF RenameGroup
  <2>2. \A t \in rename_group(users, m, n) :
          users \in Stores /\ WellFormed(users) => Keeps(users, t) /\ Grows(users, t)
    BY RenameGroupKeeps, Zenon
  <2> QED BY <2>1, <2>2, AdministerKeeps, Zenon
<1>6. CASE Assign(h)
  <2>1. PICK m \in Membership : Administer(h, assign(users, m[1], m[2]))
    BY <1>6, Zenon DEF Assign
  <2>2. \A t \in assign(users, m[1], m[2]) :
          users \in Stores /\ WellFormed(users) => Keeps(users, t) /\ Grows(users, t)
    BY AssignKeeps, Zenon
  <2> QED BY <2>1, <2>2, AdministerKeeps, Zenon
<1>7. CASE Unassign(h)
  <2>1. PICK m \in Membership : Administer(h, unassign(users, m[1], m[2]))
    BY <1>7, Zenon DEF Unassign
  <2>2. \A t \in unassign(users, m[1], m[2]) :
          users \in Stores /\ WellFormed(users) => Keeps(users, t) /\ Grows(users, t)
    BY AssignKeeps, Zenon
  <2> QED BY <2>1, <2>2, AdministerKeeps, Zenon
<1> QED BY <1>1, <1>2, <1>3, <1>4, <1>5, <1>6, <1>7, Zenon

\* The removal of a group or of a user, from its listing to its write.
LEMMA RemoveSteps ==
  ASSUME StoreInv, NEW h \in Handle, NEW n,
         remove_group(h, n) \/ RemoveLists(h, n) \/ remove_user(h) \/ JobFails(h)
  PROVE  StoreInv' /\ IdsKept
<1>0. JobInv
  BY Zenon DEF StoreInv
<1>1. CASE remove_group(h, n)
  <2>1. PICK g \in users.groups : users' = drop_group(users, g)
    BY <1>1, Zenon DEF remove_group, NamedGroup
  <2>2. Admin(h) /\ handles' = handles /\ job' = job
    BY <1>1, Zenon DEF remove_group
  <2>3. is_protected(users) /\ Keeps(users, users')
    BY <2>1, <2>2, AdminProtected, DropGroupKeeps, Zenon
  <2> QED BY <1>0, <2>2, <2>3, JobStays, StepKeeps, Zenon DEF Advances
<1>2. CASE RemoveLists(h, n)
  <2>0. PICK u \in users.users :
          /\ ~ is_protected_user(u)
          /\ \E j : j.op = "remove" /\ j.uid = u.uid /\ job' = [job EXCEPT ![h] = j]
    BY <1>2, Zenon DEF RemoveLists, NamedUser
  <2>1. PICK j : j.op = "remove" /\ j.uid = u.uid /\ job' = [job EXCEPT ![h] = j]
    BY <2>0, Zenon
  <2>2. j.op # "promote" /\ j.uid # MASTER_UID
    BY <2>0, <2>1 DEF is_protected_user, MASTER_UID
  <2>3. JobInv'
    BY <1>0, <2>1, <2>2, JobSet, Zenon
  <2>4. users' = users /\ handles' = handles
    BY <1>2, Zenon DEF RemoveLists
  <2> QED BY <2>3, <2>4, StepKeeps, Zenon DEF Advances
<1>3. CASE remove_user(h)
  <2>1. /\ job[h] # None /\ job[h].op = "remove" /\ users' = forget_user(users, job[h].uid)
        /\ handles' = handles /\ job' = [job EXCEPT ![h] = None]
    BY <1>3, Zenon DEF remove_user
  <2>2. job[h].uid # MASTER_UID
    BY <1>0, <2>1, Zenon DEF JobInv
  <2>3. JobInv'
    BY <1>0, <2>1, JobSet, Zenon
  <2>4. CASE is_protected(users)
    <3>1. Keeps(users, users')
      BY <2>1, <2>2, <2>4, ForgetUserKeeps, Zenon DEF StoreInv, StoreWellFormed, MASTER_UID
    <3> QED BY <2>1, <2>3, <2>4, <3>1, StepKeeps, Zenon DEF Advances
  <2>5. CASE ~ is_protected(users)
    <3>1. users.users = {} /\ users \in Stores
      BY <2>5, Zenon DEF is_protected, StoreInv
    <3>2. PICK r : r = [users EXCEPT !.users = {u \in @ : u.uid # job[h].uid}] /\ users' = seal_control(r)
      BY <2>1, Zenon DEF forget_user
    <3>3. r \in Stores /\ r.users = {}
      BY <3>1, <3>2, Zenon DEF Stores
    <3>4. users' \in Stores /\ ~ is_protected(users')
      BY <3>2, <3>3, SealControl, Zenon DEF is_protected
    <3> QED BY <2>1, <2>3, <2>5, <3>4, StepKeeps, Zenon DEF Advances
  <2> QED BY <2>4, <2>5, Zenon
<1>4. CASE JobFails(h)
  <2>1. users' = users /\ handles' = handles /\ job' = [job EXCEPT ![h] = None]
    BY <1>4, Zenon DEF JobFails
  <2>2. JobInv'
    BY <1>0, <2>1, JobSet, Zenon
  <2> QED BY <2>1, <2>2, StepKeeps, Zenon DEF Advances
<1> QED BY <1>1, <1>2, <1>3, <1>4, Zenon

\* The calls of a write transaction and its ends leave users, handles and jobs alone.
LEMMA TxnSteps ==
  ASSUME StoreInv,
         \/ \E h \in Handle : Begin(h)
         \/ \E p \in Path, v \in Value : StoreAt(p, v) \/ Edit(p, v)
         \/ \E p \in DirPath : Mkdir(p)
         \/ \E p \in Path : Rm(p)
         \/ \E m \in Move : Mv(m[1], m[2]) \/ Cp(m[1], m[2])
         \/ \E p \in Path, n \in UserName : Chown(p, n)
         \/ \E p \in Path, r \in OwnerGrant : SetAclOwner(p, r)
         \/ \E p \in Path, r \in OtherGrant : SetAclOther(p, r)
         \/ \E p \in Path, n \in GroupName, r \in GroupGrant : SetAclGroup(p, n, r)
         \/ \E p \in Path, n \in GroupName : AclAddGroup(p, n) \/ AclDelGroup(p, n)
         \/ Commit
         \/ Abandon
  PROVE  StoreInv' /\ IdsKept
<1> DEFINE Same == users' = users /\ handles' = handles /\ job' = job
<1>1. ASSUME NEW h, Begin(h) PROVE Same
  BY <1>1, Zenon DEF Begin
<1>2. ASSUME NEW p, NEW v, StoreAt(p, v) PROVE Same
  BY <1>2, Zenon DEF StoreAt, Mutation, Call
<1>3. ASSUME NEW p, NEW v, Edit(p, v) PROVE Same
  BY <1>3, Zenon DEF Edit, Mutation, Call
<1>4. ASSUME NEW p, Mkdir(p) PROVE Same
  BY <1>4, Zenon DEF Mkdir, Mutation, Call
<1>5. ASSUME NEW p, Rm(p) PROVE Same
  BY <1>5, Zenon DEF Rm, Mutation, Call
<1>6. ASSUME NEW p, NEW q, Mv(p, q) PROVE Same
  BY <1>6, Zenon DEF Mv, Mutation, Call
<1>7. ASSUME NEW p, NEW q, Cp(p, q) PROVE Same
  BY <1>7, Zenon DEF Cp, Mutation, Call
<1>8. ASSUME NEW p, NEW n, Chown(p, n) PROVE Same
  BY <1>8, Zenon DEF Chown, NewAcl, Call
<1>9. ASSUME NEW p, NEW r, SetAclOwner(p, r) PROVE Same
  BY <1>9, Zenon DEF SetAclOwner, Reclass, NewAcl, Call
<1>10. ASSUME NEW p, NEW r, SetAclOther(p, r) PROVE Same
  BY <1>10, Zenon DEF SetAclOther, Reclass, NewAcl, Call
<1>11. ASSUME NEW p, NEW n, NEW r, SetAclGroup(p, n, r) PROVE Same
  BY <1>11, Zenon DEF SetAclGroup, Reclass, NewAcl, Call
<1>12. ASSUME NEW p, NEW n, AclAddGroup(p, n) PROVE Same
  BY <1>12, Zenon DEF AclAddGroup, Reclass, NewAcl, Call
<1>13. ASSUME NEW p, NEW n, AclDelGroup(p, n) PROVE Same
  BY <1>13, Zenon DEF AclDelGroup, Reclass, NewAcl, Call
<1>14. Commit => Same
  BY Zenon DEF Commit
<1>15. Abandon => Same
  BY Zenon DEF Abandon
<1> HIDE DEF Same
<1>16. Same
  BY <1>1, <1>2, <1>3, <1>4, <1>5, <1>6, <1>7, <1>8, <1>9, <1>10, <1>11, <1>12, <1>13, <1>14, <1>15, Zenon
<1>17. JobInv'
  BY <1>16, JobStays, Zenon DEF Same, StoreInv
<1> QED BY <1>16, <1>17, StepKeeps, Zenon DEF Same, Advances

-----------------------------------------------------------------------------

\* The database begins with the invariant.
LEMMA InitStore == Init => StoreInv
<1> SUFFICES ASSUME Init PROVE StoreInv
  BY Zenon
<1>1. PICK s \in Start : users = s.users /\ handles = s.handles /\ job = [h \in Handle |-> None]
  BY Zenon DEF Init
<1>2. /\ users \in Stores /\ (is_protected(users) => WellFormed(users))
      /\ \A h \in Handle : handles[h] \in {None, Unrestricted} \/ is_protected(users)
  BY <1>1, StartAssumption, Zenon DEF ActsFor
<1>3. JobInv
  BY <1>1, Zenon DEF JobInv
<1> QED BY <1>2, <1>3, Zenon DEF StoreInv, StoreWellFormed

\* Every step preserves the invariant and leaves retired ids alone.
LEMMA NextStore == StoreInv /\ [Next]_vars => StoreInv' /\ (IdsKept \/ UNCHANGED vars)
<1> SUFFICES ASSUME StoreInv, [Next]_vars PROVE StoreInv' /\ (IdsKept \/ UNCHANGED vars)
  BY Zenon
<1>1. CASE UNCHANGED vars
  <2>1. users' = users /\ handles' = handles /\ job' = job
    BY <1>1, Zenon DEF vars
  <2>2. JobInv'
    BY <2>1, JobStays, Zenon DEF StoreInv
  <2> QED BY <2>1, <2>2, StepKeeps, Zenon DEF Advances
<1>2. CASE Open
  <2>1. users' = users /\ job' = job /\ is_protected(users')
    BY <1>2, Zenon DEF Open
  <2>2. JobInv'
    BY <2>1, JobStays, Zenon DEF StoreInv
  <2> QED BY <2>1, <2>2, StepKeeps, Zenon DEF Advances
<1>3. ASSUME NEW h \in Handle, NEW n \in UserName \cup {"master"}, NEW pw \in Password,
             with_authentication(h, n, pw) \/ PromoteLists(h, pw) \/ change_password(h, pw)
      PROVE  StoreInv' /\ IdsKept
  BY <1>3, HandleSteps, Zenon
<1>4. ASSUME NEW h \in Handle, promote_to_master(h) PROVE StoreInv' /\ IdsKept
  BY <1>4, PromoteStep, Zenon
<1>5. ASSUME NEW h \in Handle,
             \/ AddUser(h) \/ AddUserWithGroup(h) \/ AddGroup(h) \/ RenameUser(h) \/ RenameGroup(h)
             \/ Assign(h) \/ Unassign(h)
      PROVE  StoreInv' /\ IdsKept
  <2>1. AdminStep
    BY <1>5, AdminSteps, Zenon
  <2>2. JobInv'
    BY <2>1, JobStays, Zenon DEF AdminStep, StoreInv
  <2> QED BY <2>1, <2>2, StepKeeps, Zenon DEF AdminStep, Advances
<1>6. ASSUME NEW h \in Handle, NEW n, remove_group(h, n) \/ RemoveLists(h, n) \/ remove_user(h) \/ JobFails(h)
      PROVE  StoreInv' /\ IdsKept
  BY <1>6, RemoveSteps, Zenon
<1> QED BY <1>1, <1>2, <1>3, <1>4, <1>5, <1>6, TxnSteps, Zenon DEF Next

\* The inductive invariant: the store's types and form, who can act before the
\* promotion, and what a promotion or removal at work has noted (perm::store,
\* ArborDb::remove_user).
THEOREM StoreInvariant == Spec => []StoreInv
<1>1. Init => StoreInv
  BY InitStore, Zenon
<1>2. StoreInv /\ [Next]_vars => StoreInv'
  BY NextStore, Zenon
<1> QED BY <1>1, <1>2, PTL DEF Spec

\* Whatever administrators do, ids and names denote one record each, members belong
\* to groups that exist, and the master can authenticate (perm::store's operations).
THEOREM UsersWellFormed == Spec => []StoreWellFormed
<1>1. StoreInv => StoreWellFormed
  BY Zenon DEF StoreInv
<1> QED BY <1>1, StoreInvariant, PTL

\* An id that named a user or a group never names another (next_uid and next_gid of
\* perm::store, over every sequence of additions and removals).
THEOREM NoIdReused == Spec => IdsNotReused
<1>1. StoreInv /\ [Next]_vars =>
        [is_protected(users) =>
           /\ Uids(users') \cap 0..(users.next_uid - 1) \subseteq Uids(users)
           /\ Gids(users') \cap 0..(users.next_gid - 1) \subseteq Gids(users)]_vars
  BY NextStore, Zenon DEF IdsKept
<1> QED BY <1>1, StoreInvariant, PTL DEF Spec, IdsNotReused

-----------------------------------------------------------------------------
(* Sealed inodes. *)

\* An ACL that names groups among gids names them among more.
LEMMA WithinMore ==
  ASSUME NEW acl, NEW G, NEW H, AclWithin(acl, G), G \subseteq H PROVE AclWithin(acl, H)
BY Zenon DEF AclWithin

\* Nothing is lost from an ACL all of whose groups exist.
LEMMA KeptAll ==
  ASSUME NEW acl, NEW G, AclWithin(acl, G) PROVE KeptGroups(acl, G) = acl
<1>1. CASE acl = None
  BY <1>1, Zenon DEF KeptGroups
<1>2. CASE acl # None
  <2>1. acl \in AclRecord /\ group_ids(acl) \subseteq G
    BY <1>2, Zenon DEF AclWithin
  <2>2. \A g \in Id : g \notin G => acl.group[g] = NoRights
    BY <2>1, Zenon DEF group_ids
  <2>3. [g \in Id |-> IF g \in G THEN acl.group[g] ELSE NoRights] = acl.group
    BY <2>1, <2>2 DEF AclRecord
  <2>4. [acl EXCEPT !.group = acl.group] = acl
    BY <2>1 DEF AclRecord
  <2> QED BY <1>2, <2>3, <2>4, Zenon DEF KeptGroups
<1> QED BY <1>1, <1>2

\* New groups take new ids: they are in no ACL that was sealed before.
LEMMA KeptSame ==
  ASSUME NEW acl, NEW N, NEW G, NEW H, AclWithin(acl, N), G \subseteq H, H \cap N \subseteq G
  PROVE  KeptGroups(acl, G) = KeptGroups(acl, H)
<1>1. CASE acl = None
  BY <1>1, Zenon DEF KeptGroups
<1>2. CASE acl # None
  <2>1. \A g \in Id : g \notin N => acl.group[g] = NoRights
    BY <1>2, Zenon DEF AclWithin, group_ids
  <2>2. ASSUME NEW g \in Id
        PROVE  (IF g \in G THEN acl.group[g] ELSE NoRights) = (IF g \in H THEN acl.group[g] ELSE NoRights)
    BY <2>1
  <2>3. [g \in Id |-> IF g \in G THEN acl.group[g] ELSE NoRights]
          = [g \in Id |-> IF g \in H THEN acl.group[g] ELSE NoRights]
    BY <2>2, Zenon
  <2> QED BY <1>2, <2>3, Zenon DEF KeptGroups
<1> QED BY <1>1, <1>2

\* strip_group of what is left of a sealed ACL leaves what the removed group leaves.
LEMMA KeptStrip ==
  ASSUME NEW acl, NEW N, NEW G, NEW x, AclWithin(acl, N)
  PROVE  strip_group(KeptGroups(acl, G), x) = KeptGroups(acl, G \ {x})
<1>1. CASE acl = None
  BY <1>1, Zenon DEF KeptGroups, strip_group
<1>2. CASE acl # None
  <2>1. acl \in AclRecord
    BY <1>2, Zenon DEF AclWithin
  <2> DEFINE kept == [acl EXCEPT !.group = [g \in Id |-> IF g \in G THEN acl.group[g] ELSE NoRights]]
  <2>2. kept \in AclRecord /\ kept.group = [g \in Id |-> IF g \in G THEN acl.group[g] ELSE NoRights]
    BY <2>1 DEF AclRecord, Rights, NoRights, Delete
  <2>3. kept # None /\ KeptGroups(acl, G) = kept
    BY <1>2, <2>2, NoneAssumption, Zenon DEF KeptGroups
  <2>4. [kept.group EXCEPT ![x] = NoRights] = [g \in Id |-> IF g \in G \ {x} THEN acl.group[g] ELSE NoRights]
    BY <2>2
  <2>5. [kept EXCEPT !.group[x] = NoRights] = [acl EXCEPT !.group = [kept.group EXCEPT ![x] = NoRights]]
    BY <2>1, <2>2 DEF AclRecord
  <2>6. strip_group(kept, x) = [kept EXCEPT !.group[x] = NoRights]
    BY <2>3, Zenon DEF strip_group, acl_remove_group
  <2> HIDE DEF kept
  <2> QED BY <1>2, <2>3, <2>4, <2>5, <2>6, Zenon DEF KeptGroups
<1> QED BY <1>1, <1>2

\* An ACL without a group names the other groups.
LEMMA WithinStrip ==
  ASSUME NEW acl, NEW G, NEW x, AclWithin(acl, G) PROVE AclWithin(strip_group(acl, x), G \ {x})
<1>1. CASE acl = None
  BY <1>1, Zenon DEF AclWithin, strip_group
<1>2. CASE acl # None
  <2>1. acl \in AclRecord /\ group_ids(acl) \subseteq G
    BY <1>2, Zenon DEF AclWithin
  <2> DEFINE new == [acl EXCEPT !.group[x] = NoRights]
  <2>2. new \in AclRecord /\ new.group = [acl.group EXCEPT ![x] = NoRights]
    BY <2>1 DEF AclRecord, Rights, NoRights, Delete
  <2>3. \A g \in Id : new.group[g] = IF g = x THEN NoRights ELSE acl.group[g]
    BY <2>1, <2>2 DEF AclRecord
  <2>4. strip_group(acl, x) = new
    BY <1>2, Zenon DEF strip_group, acl_remove_group
  <2> HIDE DEF new
  <2> QED BY <2>1, <2>2, <2>3, <2>4, Zenon DEF AclWithin, group_ids
<1> QED BY <1>1, <1>2

\* The groups of a well-formed store have ids below the counter.
LEMMA GidsBelow ==
  ASSUME NEW s \in Stores, WellFormed(s) PROVE Gids(s) \subseteq 0..(s.next_gid - 1)
<1>1. s.next_gid \in Nat /\ \A g \in s.groups : g.gid \in Nat /\ g.gid < s.next_gid
  BY DEF Stores, GroupRecords, WellFormed
<1>2. \A g \in s.groups : g.gid \in 0..(s.next_gid - 1)
  BY <1>1
<1> QED BY <1>2, Zenon DEF Gids

\* The ACL a new a-node gets names no group.
LEMMA DefaultWithin ==
  ASSUME NEW uid \in Id, NEW G PROVE AclWithin(default_for(uid), G)
<1>1. default_for(uid) \in AclRecord /\ \A g \in Id : default_for(uid).group[g] = NoRights
  BY DEF default_for, AclRecord, Rights, NoRights, Access, Delete
<1> QED BY <1>1, Zenon DEF AclWithin, group_ids

\* A session is a user's.
LEMMA SessionIsUser ==
  ASSUME NEW who \in Sessions PROVE is_user(who) /\ who.uid \in Id
BY DEF Sessions, Session, is_user

\* An unrestricted handle is nobody's.
LEMMA UnrestrictedIsNoUser == ~ is_user(Unrestricted)
BY DEF Unrestricted, is_user

\* An entry sealed just now, with the ACL it has, is well sealed.
LEMMA SealedNow ==
  ASSUME NEW s \in Stores, WellFormed(s), NEW e, NEW acl, AclWithin(acl, Gids(s)), NEW i,
         i = [acl |-> acl, seal |-> Seal(e, acl)]
  PROVE  WellSealed(e, i, s)
<1>1. i.acl = acl /\ i.seal.entry = e /\ i.seal.acl = acl
  BY DEF Seal
<1>2. AclWithin(acl, 0..(s.next_gid - 1))
  BY GidsBelow, WithinMore, Zenon
<1>3. KeptGroups(acl, Gids(s)) = acl
  BY KeptAll, Zenon
<1> QED BY <1>1, <1>2, <1>3, Zenon DEF WellSealed

\* put_entry by a user seals the entry and gives a new one an ACL.
LEMMA StampSeals ==
  ASSUME NEW s \in Stores, WellFormed(s), is_protected(s), NEW who \in Sessions,
         NEW k, NEW e, NEW i, InodeWithin(i, s)
  PROVE  /\ InodeWithin(stamp_and_seal(who, k, e, i), s)
         /\ WellSealed(e, stamp_and_seal(who, k, e, i), s)
<1> DEFINE acl == IF k # ROOT /\ i.acl = None THEN default_for(who.uid) ELSE i.acl
           j == [acl |-> acl, seal |-> Seal(e, acl)]
<1>1. AclWithin(acl, Gids(s))
  BY DefaultWithin, SessionIsUser, Zenon DEF InodeWithin
<1>2. stamp_and_seal(who, k, e, i) = j
  BY SessionIsUser, Zenon DEF stamp_and_seal
<1> HIDE DEF acl
<1>3. WellSealed(e, j, s)
  BY <1>1, SealedNow, Zenon
<1>4. j.acl = acl /\ j.seal = Seal(e, acl)
  OBVIOUS
<1> QED BY <1>1, <1>2, <1>3, <1>4, Zenon DEF InodeWithin

\* Before the promotion no inode is stamped.
LEMMA StampNothing ==
  ASSUME NEW k, NEW e, NEW i
  PROVE  /\ stamp_and_seal(Unrestricted, k, e, i) = i
         /\ stamp_new_dir_acl(Unrestricted, k, i) = i
BY UnrestrictedIsNoUser, Zenon DEF stamp_and_seal, stamp_new_dir_acl

\* A buffered directory gets its ACL.
LEMMA StampNewDir ==
  ASSUME NEW s, is_protected(s), NEW who \in Sessions, NEW k, NEW i, InodeWithin(i, s)
  PROVE  InodeWithin(stamp_new_dir_acl(who, k, i), s)
<1>1. CASE is_user(who) /\ k # ROOT /\ i.acl = None
  <2> DEFINE j == [i EXCEPT !.acl = default_for(who.uid)]
  <2>1. stamp_new_dir_acl(who, k, i) = j
    BY <1>1, Zenon DEF stamp_new_dir_acl
  <2>2. AclWithin(default_for(who.uid), Gids(s))
    BY DefaultWithin, SessionIsUser, Zenon
  <2>3. j = [acl |-> default_for(who.uid), seal |-> i.seal] /\ j.acl = default_for(who.uid) /\ j.seal = i.seal
    BY DEF InodeWithin
  <2> HIDE DEF j
  <2> QED BY <2>1, <2>2, <2>3, Zenon DEF InodeWithin
<1>2. CASE ~ (is_user(who) /\ k # ROOT /\ i.acl = None)
  BY <1>2, Zenon DEF stamp_new_dir_acl
<1> QED BY <1>1, <1>2

\* One inode of a user's transaction after a mutation.
LEMMA EffectSeals ==
  ASSUME NEW s \in Stores, WellFormed(s), is_protected(s), NEW c, CtxInv(c, s), NEW t, NEW k \in AKey
  PROVE  /\ InodeWithin(Effect(c, t)[k], s)
         /\ t.data[k] # None /\ t.files[k] = None /\ t.dirs[k] = None
              => WellSealed(t.data[k], Effect(c, t)[k], s)
<1>0. c.who \in Sessions /\ InodeWithin(c.inodes[k], s)
  BY Zenon DEF CtxInv, InodesWithin
<1> DEFINE gone == Present(c.store, k) /\ ~ Present(t, k)
           wr == k \in Written(c.store, t)
           i == Effect(c, t)[k]
<1>1. CASE gone
  <2>1. i = NoInode /\ t.data[k] = None
    BY <1>1, Zenon DEF Effect, Present, Written
  <2>2. NoInode.acl = None /\ NoInode = [acl |-> NoInode.acl, seal |-> NoInode.seal]
    BY DEF NoInode
  <2> QED BY <2>1, <2>2, Zenon DEF InodeWithin, AclWithin
<1>2. CASE ~ gone /\ wr
  <2>1. i = stamp_and_seal(c.who, k, t.data[k], c.inodes[k])
    BY <1>2, Zenon DEF Effect
  <2> QED BY <1>0, <2>1, StampSeals, Zenon
<1>3. CASE ~ gone /\ ~ wr
  <2>1. i = c.inodes[k] \/ (i = stamp_new_dir_acl(c.who, k, c.inodes[k]) /\ t.dirs[k] # None)
    BY <1>3, Zenon DEF Effect
  <2>2. InodeWithin(i, s)
    BY <1>0, <2>1, StampNewDir, Zenon
  <2>3. ASSUME t.data[k] # None, t.files[k] = None, t.dirs[k] = None PROVE WellSealed(t.data[k], i, s)
    <3>1. c.store.data[k] = t.data[k] /\ c.store.files[k] = None /\ c.store.dirs[k] = None
      BY <1>3, <2>3, Zenon DEF Written
    <3>2. WellSealed(c.store.data[k], c.inodes[k], s)
      BY <2>3, <3>1, Zenon DEF CtxInv
    <3> QED BY <2>1, <2>3, <3>1, <3>2, Zenon
  <2> QED BY <2>2, <2>3, Zenon
<1> QED BY <1>1, <1>2, <1>3, Zenon

\* A mutation leaves every a-node sealed that it does not leave buffered, whatever it
\* does to the tree.
LEMMA MutatedKeeps ==
  ASSUME NEW s \in Stores, is_protected(s) => WellFormed(s), NEW c, CtxInv(c, s), NEW t
  PROVE  CtxInv(Mutated(c, t), s)
<1>1. c = Context(c.who, c.store, c.inodes)
  BY Zenon DEF CtxInv
<1>2. PICK m : m = Mutated(c, t)
  OBVIOUS
<1>3. m = Context(m.who, m.store, m.inodes) /\ m.who = c.who /\ m.store = t /\ m.inodes = Effect(c, t)
  BY <1>2 DEF Mutated, Context
<1>4. Effect(c, t) = [k \in AKey |-> Effect(c, t)[k]]
  BY DEF Effect
<1>5. CASE is_protected(s)
  <2>1. \A k \in AKey :
          /\ InodeWithin(Effect(c, t)[k], s)
          /\ t.data[k] # None /\ t.files[k] = None /\ t.dirs[k] = None
               => WellSealed(t.data[k], Effect(c, t)[k], s)
    BY <1>5, EffectSeals, Zenon
  <2>2. InodesWithin(Effect(c, t), s) /\ c.who \in Sessions
    BY <1>4, <1>5, <2>1, Zenon DEF InodesWithin, CtxInv
  <2> QED BY <1>2, <1>3, <1>5, <2>1, <2>2, Zenon DEF CtxInv
<1>6. CASE ~ is_protected(s)
  <2>1. c.who = Unrestricted /\ \A k \in AKey : InodeWithin(c.inodes[k], s)
    BY <1>6, Zenon DEF CtxInv, InodesWithin
  <2>2. NoInode.acl = None /\ NoInode = [acl |-> NoInode.acl, seal |-> NoInode.seal]
    BY DEF NoInode
  <2>3. ASSUME NEW k \in AKey PROVE InodeWithin(Effect(c, t)[k], s)
    <3> DEFINE i == Effect(c, t)[k]
    <3>1. \/ i = NoInode \/ i = c.inodes[k] \/ i = stamp_new_dir_acl(c.who, k, c.inodes[k])
          \/ i = stamp_and_seal(c.who, k, t.data[k], c.inodes[k])
      BY DEF Effect
    <3>2. /\ stamp_new_dir_acl(c.who, k, c.inodes[k]) = c.inodes[k]
          /\ stamp_and_seal(c.who, k, t.data[k], c.inodes[k]) = c.inodes[k]
      BY <2>1, StampNothing
    <3>3. i = NoInode \/ i = c.inodes[k]
      BY <3>1, <3>2, Zenon
    <3> HIDE DEF i
    <3> QED BY <2>1, <2>2, <3>3, Zenon DEF InodeWithin, AclWithin, i
  <2> QED BY <1>2, <1>3, <1>4, <1>6, <2>1, <2>3, Zenon DEF CtxInv, InodesWithin
<1> QED BY <1>5, <1>6

\* A new ACL comes with a new seal.
LEMMA ResealKeeps ==
  ASSUME NEW s \in Stores, WellFormed(s), is_protected(s), NEW c, CtxInv(c, s), NEW k,
         NEW acl, AclWithin(acl, Gids(s))
  PROVE  CtxInv(reseal_integrity(c, k, acl), s)
<1> DEFINE e == with_entry(c.store, k)
           sl == IF is_user(c.who) /\ e # None THEN Seal(e, acl) ELSE c.inodes[k].seal
           i == [acl |-> acl, seal |-> sl]
           in == [c.inodes EXCEPT ![k] = i]
<1>1. c = Context(c.who, c.store, c.inodes) /\ c.who \in Sessions /\ InodesWithin(c.inodes, s)
  BY Zenon DEF CtxInv
<1>2. PICK m : m = reseal_integrity(c, k, acl)
  OBVIOUS
<1>3. m = Context(m.who, m.store, m.inodes) /\ m.who = c.who /\ m.store = c.store /\ m.inodes = in
  <2>1. m = Context(c.who, c.store, in)
    BY <1>2, Zenon DEF reseal_integrity
  <2> HIDE DEF in
  <2> QED BY <2>1 DEF Context
<1>4. i.acl = acl /\ i.seal = sl /\ InodeWithin(i, s)
  <2> HIDE DEF sl
  <2> QED BY Zenon DEF InodeWithin
<1>5. in = [j \in AKey |-> in[j]] /\ \A j \in AKey : in[j] = IF j = k THEN i ELSE c.inodes[j]
  <2> HIDE DEF i
  <2> QED BY <1>1 DEF InodesWithin
<1>6. ASSUME NEW j \in AKey, c.store.data[j] # None, c.store.files[j] = None, c.store.dirs[j] = None
      PROVE  WellSealed(c.store.data[j], in[j], s)
  <2>1. CASE j # k
    BY <1>5, <1>6, <2>1, Zenon DEF CtxInv
  <2>2. CASE j = k
    <3>1. e = c.store.data[k] /\ is_user(c.who)
      BY <1>1, <1>6, <2>2, SessionIsUser, Zenon DEF with_entry, file_get
    <3>2. i = [acl |-> acl, seal |-> Seal(c.store.data[k], acl)]
      BY <1>6, <2>2, <3>1, Zenon
    <3> QED BY <1>5, <2>2, <3>2, SealedNow, Zenon
  <2> QED BY <2>1, <2>2
<1>7. \A j \in AKey : InodeWithin(in[j], s)
  BY <1>1, <1>4, <1>5, Zenon DEF InodesWithin
<1> HIDE DEF in
<1> QED BY <1>1, <1>2, <1>3, <1>5, <1>6, <1>7, Zenon DEF CtxInv, InodesWithin

\* There is nothing to seal outside the table.
LEMMA ResealNowhere ==
  ASSUME NEW s, NEW c, CtxInv(c, s), NEW k, k \notin AKey, NEW acl
  PROVE  CtxInv(reseal_integrity(c, k, acl), s)
<1>1. c = Context(c.who, c.store, c.inodes) /\ c.inodes = [j \in AKey |-> c.inodes[j]]
  BY Zenon DEF CtxInv, InodesWithin
<1>2. \A i : [c.inodes EXCEPT ![k] = i] = c.inodes
  BY <1>1
<1>3. reseal_integrity(c, k, acl) = c
  BY <1>1, <1>2, Zenon DEF reseal_integrity
<1> QED BY <1>3, Zenon

\* An ACL with the groups of another names no other groups.
LEMMA SameGroups ==
  ASSUME NEW acl, NEW G, group_ids(acl) \subseteq G, NEW b \in AclRecord, b.group = acl.group
  PROVE  AclWithin(b, G)
BY Zenon DEF AclWithin, group_ids

\* What set_acl of the owner or the others, and chown, write.
LEMMA FieldEdits ==
  ASSUME NEW acl \in AclRecord, NEW G, group_ids(acl) \subseteq G, NEW r \in Rights, NEW u \in Id
  PROVE  /\ AclWithin([acl EXCEPT !.owner = r], G)
         /\ AclWithin([acl EXCEPT !.other = r], G)
         /\ AclWithin([acl EXCEPT !.owner_uid = u], G)
<1>1. [acl EXCEPT !.owner = r] \in AclRecord /\ [acl EXCEPT !.owner = r].group = acl.group
  BY DEF AclRecord
<1>2. [acl EXCEPT !.other = r] \in AclRecord /\ [acl EXCEPT !.other = r].group = acl.group
  BY DEF AclRecord
<1>3. [acl EXCEPT !.owner_uid = u] \in AclRecord /\ [acl EXCEPT !.owner_uid = u].group = acl.group
  BY DEF AclRecord
<1> QED BY <1>1, <1>2, <1>3, SameGroups, Zenon

\* What set_acl of a group, add_group and del_group write names a group of the store.
LEMMA GroupEdits ==
  ASSUME NEW acl \in AclRecord, NEW G, group_ids(acl) \subseteq G, NEW r \in Rights, NEW g \in G
  PROVE  /\ AclWithin(set_group_rights(acl, g, r), G)
         /\ AclWithin(acl_add_group(acl, g), G)
         /\ AclWithin(acl_remove_group(acl, g), G)
<1>1. ASSUME NEW b \in AclRecord, \A i \in Id : i # g => b.group[i] = acl.group[i]
      PROVE  AclWithin(b, G)
  BY <1>1, Zenon DEF AclWithin, group_ids
<1>2. ASSUME NEW x \in Rights PROVE AclWithin([acl EXCEPT !.group[g] = x], G)
  <2>1. /\ [acl EXCEPT !.group[g] = x] \in AclRecord
        /\ \A i \in Id : i # g => [acl EXCEPT !.group[g] = x].group[i] = acl.group[i]
    BY DEF AclRecord
  <2> QED BY <1>1, <2>1, Zenon
<1>3. AclWithin(set_group_rights(acl, g, r), G)
  BY <1>2, Zenon DEF set_group_rights
<1>4. AclWithin(acl_remove_group(acl, g), G)
  <2>1. NoRights \in Rights
    BY DEF NoRights, Rights, Delete
  <2> QED BY <1>2, <2>1, Zenon DEF acl_remove_group
<1>5. AclWithin(acl_add_group(acl, g), G)
  <2> DEFINE x == IF acl.group[g] = NoRights THEN Access ELSE acl.group[g]
             new == [acl EXCEPT !.group[g] = x]
  <2>1. g \in Id => x \in Rights
    BY DEF AclRecord, Access, Rights, NoRights, Delete
  <2>2. acl_add_group(acl, g) = new
    BY Zenon DEF acl_add_group
  <2> HIDE DEF x
  <2>3. new \in AclRecord /\ \A i \in Id : i # g => new.group[i] = acl.group[i]
    BY <2>1 DEF AclRecord
  <2> HIDE DEF new
  <2> QED BY <1>1, <2>2, <2>3, Zenon
<1> QED BY <1>3, <1>4, <1>5, Zenon

-----------------------------------------------------------------------------
(* Operations of the permission store, seen from the inodes. *)

\* More groups and users: every ACL and every seal is as good as before.
LEMMA GrownSeals ==
  ASSUME NEW s \in Stores, NEW t, is_protected(s), Keeps(s, t), Grows(s, t)
  PROVE  /\ \A in : InodesWithin(in, s) => InodesWithin(in, t)
         /\ \A e, i : WellSealed(e, i, s) => WellSealed(e, i, t)
<1>1. /\ Gids(s) \subseteq Gids(t) /\ is_protected(t)
      /\ Gids(t) \cap 0..(s.next_gid - 1) \subseteq Gids(s)
  BY Zenon DEF Keeps, Grows
<1>2. 0..(s.next_gid - 1) \subseteq 0..(t.next_gid - 1)
  BY DEF Stores, Keeps, Grows
<1>3. ASSUME NEW in, InodesWithin(in, s) PROVE InodesWithin(in, t)
  BY <1>1, <1>3, WithinMore, Zenon DEF InodesWithin, InodeWithin
<1>4. ASSUME NEW e, NEW i, WellSealed(e, i, s) PROVE WellSealed(e, i, t)
  <2>0. AclWithin(i.seal.acl, 0..(s.next_gid - 1))
    BY <1>4, Zenon DEF WellSealed
  <2>1. AclWithin(i.seal.acl, 0..(t.next_gid - 1))
    <3> DEFINE N == 0..(s.next_gid - 1)
               M == 0..(t.next_gid - 1)
    <3>1. AclWithin(i.seal.acl, N) /\ N \subseteq M
      BY <1>2, <2>0, Zenon
    <3> HIDE DEF N, M
    <3>2. AclWithin(i.seal.acl, M)
      BY <3>1, WithinMore, Zenon
    <3> QED BY <3>2, Zenon DEF M
  <2>2. KeptGroups(i.seal.acl, Gids(s)) = KeptGroups(i.seal.acl, Gids(t))
    <3> DEFINE N == 0..(s.next_gid - 1)
    <3>1. AclWithin(i.seal.acl, N) /\ Gids(t) \cap N \subseteq Gids(s)
      BY <1>1, <2>0, Zenon
    <3> HIDE DEF N
    <3> QED BY <1>1, <3>1, KeptSame
  <2> QED BY <1>4, <2>1, <2>2, Zenon DEF WellSealed
<1> QED BY <1>3, <1>4, Zenon

\* The inode that remove_group leaves.
LEMMA StripSeals ==
  ASSUME NEW s \in Stores, NEW t, is_protected(s), is_protected(t), NEW x,
         t.next_gid = s.next_gid, Gids(t) = Gids(s) \ {x}, NEW i, InodeWithin(i, s)
  PROVE  /\ InodeWithin([i EXCEPT !.acl = strip_group(@, x)], t)
         /\ \A e : WellSealed(e, i, s) => WellSealed(e, [i EXCEPT !.acl = strip_group(@, x)], t)
<1> DEFINE acl == strip_group(i.acl, x)
           j == [acl |-> acl, seal |-> i.seal]
<1>1. [i EXCEPT !.acl = strip_group(@, x)] = j
  <2> DEFINE new == [i EXCEPT !.acl = acl]
  <2>1. i = [acl |-> i.acl, seal |-> i.seal] /\ new = [i EXCEPT !.acl = strip_group(@, x)]
    BY Zenon DEF InodeWithin
  <2> HIDE DEF acl
  <2>2. new = j
    BY <2>1
  <2> QED BY <2>1, <2>2, Zenon
<1>2. AclWithin(acl, Gids(t))
  <2>1. AclWithin(i.acl, Gids(s))
    BY Zenon DEF InodeWithin
  <2> QED BY <2>1, WithinStrip
<1>3. ASSUME NEW e, WellSealed(e, i, s)
      PROVE  i.seal.entry = e /\ AclWithin(i.seal.acl, 0..(t.next_gid - 1)) /\ acl = KeptGroups(i.seal.acl, Gids(t))
  <2>1. AclWithin(i.seal.acl, 0..(s.next_gid - 1)) /\ i.acl = KeptGroups(i.seal.acl, Gids(s)) /\ i.seal.entry = e
    BY <1>3, Zenon DEF WellSealed
  <2>2. acl = KeptGroups(i.seal.acl, Gids(s) \ {x})
    BY <2>1, KeptStrip
  <2> QED BY <2>1, <2>2, Zenon
<1>4. j.acl = acl /\ j.seal = i.seal
  <2> HIDE DEF acl
  <2> QED OBVIOUS
<1>5. InodeWithin(j, t)
  BY <1>2, <1>4, Zenon DEF InodeWithin
<1>6. ASSUME NEW e, WellSealed(e, i, s) PROVE WellSealed(e, j, t)
  <2>1. /\ j.seal.entry = e /\ AclWithin(j.seal.acl, 0..(t.next_gid - 1))
        /\ j.acl = KeptGroups(j.seal.acl, Gids(t))
    BY <1>3, <1>4, <1>6, Zenon
  <2> HIDE DEF j
  <2> QED BY <2>1, Zenon DEF WellSealed
<1> QED BY <1>1, <1>5, <1>6, Zenon

=============================================================================
