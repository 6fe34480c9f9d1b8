----------------------------- MODULE UserStore -----------------------------
(***************************************************************************)
(* The permission store of $metadata (perm::store) as a value: the users,  *)
(* the groups, the next ids, and what the control-plane MAC covers.  An    *)
(* operation yields the set of stores it may end with, which is empty when *)
(* the call ends in an error (its transaction is dropped).                 *)
(***************************************************************************)
EXTENDS Naturals, FiniteSets

CONSTANTS
  UserName, GroupName,   \* names given to new users and groups
  Password

NoKeyring == "no keyring"

ASSUME PasswordAssumption == NoKeyring \notin Password

UserRecord(name, uid, frozen, gids, keyring) ==
  [name |-> name, uid |-> uid, frozen |-> frozen, gids |-> gids, keyring |-> keyring]

GroupRecord(name, gid) == [name |-> name, gid |-> gid]

Unprotected == [users |-> {}, groups |-> {}, next_uid |-> 2, next_gid |-> 2, mac |-> <<{}, {}>>]

is_protected(s) == s.users # {}

\* What the MAC binds; the epoch it also binds only ever moves with it.
seal_control(s) == [s EXCEPT !.mac = <<s.users, s.groups>>]
verify_control(s) == s.mac = <<s.users, s.groups>>

NamedUser(s, n) == {u \in s.users : u.name = n}
NamedGroup(s, n) == {g \in s.groups : g.name = n}
Uids(s) == {u.uid : u \in s.users}
Gids(s) == {g.gid : g \in s.groups}

is_protected_user(u) == u.uid < 2
is_protected_group(g) == g.gid < 2

\* The result of a call that goes through when `holds', and of one that fails.
If(holds, s) == IF holds THEN {s} ELSE {}

Replace(set, old, new) == (set \ {old}) \cup {new}
WithUser(s, old, new) == seal_control([s EXCEPT !.users = Replace(@, old, new)])
WithGroup(s, old, new) == seal_control([s EXCEPT !.groups = Replace(@, old, new)])

-----------------------------------------------------------------------------

\* The store part of promote_to_master.
protect(s, pw) ==
  If(~ is_protected(s),
     seal_control([s EXCEPT !.users = {UserRecord("master", 0, FALSE, {0}, pw),
                                       UserRecord("guest", 1, TRUE, {}, NoKeyring)},
                            !.groups = {GroupRecord("master", 0), GroupRecord("super", 1)}]))

\* The records a name and a password open; NoKeyring opens none.
authenticate(s, n, pw) ==
  {u \in NamedUser(s, n) : u.keyring # NoKeyring /\ u.keyring = pw /\ verify_control(s)}

change_user_password(s, uid, pw) ==
  {WithUser(s, u, [u EXCEPT !.keyring = pw]) : u \in {u \in s.users : u.uid = uid}}

\* Mutant: the new user takes the first free uid.
add_user_reusing(s, n, pw) ==
  LET uid == CHOOSE i \in 2..s.next_uid : i \notin Uids(s) /\ 2..(i - 1) \subseteq Uids(s)
  IN  If(NamedUser(s, n) = {},
         seal_control([s EXCEPT !.users = @ \cup {UserRecord(n, uid, FALSE, {}, pw)},
                                !.next_uid = @ + 1]))

add_user(s, n, pw) ==
  If(NamedUser(s, n) = {},
     seal_control([s EXCEPT !.users = @ \cup {UserRecord(n, s.next_uid, FALSE, {}, pw)},
                            !.next_uid = @ + 1]))

\* add_user with create_group: the user begins in a group of its own name.
add_user_with_group(s, n, pw) ==
  If(NamedUser(s, n) = {} /\ NamedGroup(s, n) = {},
     seal_control([s EXCEPT !.users = @ \cup {UserRecord(n, s.next_uid, FALSE, {s.next_gid}, pw)},
                            !.groups = @ \cup {GroupRecord(n, s.next_gid)},
                            !.next_uid = @ + 1,
                            !.next_gid = @ + 1]))

add_group(s, n) ==
  If(NamedGroup(s, n) = {},
     seal_control([s EXCEPT !.groups = @ \cup {GroupRecord(n, s.next_gid)}, !.next_gid = @ + 1]))

rename_user(s, old, new) ==
  {WithUser(s, u, [u EXCEPT !.name = new]) :
     u \in {u \in NamedUser(s, old) : NamedUser(s, new) = {} /\ ~ is_protected_user(u)}}

rename_group(s, old, new) ==
  {WithGroup(s, g, [g EXCEPT !.name = new]) :
     g \in {g \in NamedGroup(s, old) : NamedGroup(s, new) = {} /\ ~ is_protected_group(g)}}

\* assign and unassign leave the store as it is when there is nothing to change.
assign(s, user, group) ==
  {IF g.gid \in u.gids THEN s ELSE WithUser(s, u, [u EXCEPT !.gids = @ \cup {g.gid}]) :
     u \in {u \in NamedUser(s, user) : ~ u.frozen}, g \in NamedGroup(s, group)}

unassign(s, user, group) ==
  {IF g.gid \in u.gids THEN WithUser(s, u, [u EXCEPT !.gids = @ \ {g.gid}]) ELSE s :
     u \in NamedUser(s, user), g \in NamedGroup(s, group)}

\* Mutant: the members keep the id of the group that went.
drop_group_keeping_members(s, g) == seal_control([s EXCEPT !.groups = @ \ {g}])

\* The store part of remove_group.
drop_group(s, g) ==
  seal_control([s EXCEPT !.users = {[u EXCEPT !.gids = @ \ {g.gid}] : u \in s.users},
                         !.groups = @ \ {g}])

forget_user(s, uid) == seal_control([s EXCEPT !.users = {u \in @ : u.uid # uid}])

-----------------------------------------------------------------------------

UserRecords ==
  [name : UserName \cup {"master", "guest"}, uid : Nat, frozen : BOOLEAN, gids : SUBSET Nat,
   keyring : Password \cup {NoKeyring}]

GroupRecords == [name : UserName \cup GroupName \cup {"master", "super"}, gid : Nat]

Stores ==
  [users : SUBSET UserRecords, groups : SUBSET GroupRecords,
   next_uid : Nat \ {0, 1}, next_gid : Nat \ {0, 1},
   mac : (SUBSET UserRecords) \X (SUBSET GroupRecords)]

\* Ids and names denote one record each, ids lie below the counters, members belong
\* to groups that exist, the master has a password and the control plane verifies.
WellFormed(s) ==
  /\ \A u, w \in s.users : u.uid = w.uid \/ u.name = w.name => u = w
  /\ \A g, f \in s.groups : g.gid = f.gid \/ g.name = f.name => g = f
  /\ \A u \in s.users : u.uid < s.next_uid /\ u.gids \subseteq Gids(s)
  /\ \A g \in s.groups : g.gid < s.next_gid
  /\ \E u \in s.users : u.uid = 0 /\ u.name = "master" /\ u.keyring # NoKeyring
  /\ verify_control(s)

=============================================================================
