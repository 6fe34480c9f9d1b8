# A TLA+ model of ArborDb

ArborDb is a typed document store over an embedded key-value engine (redb). A
table is a tree of directories and files; every a-node has a stable key (`AKey`).
Readers see snapshots and run concurrently; the engine runs one write transaction
at a time. A database may be protected: it then has users and groups, every a-node
an ACL, and every entry a MAC and a signature. This directory specifies the parts
where threads, buffers, caches, indexes, rights and encodings interact, model-checks
them with TLC and proves what matters most with TLAPS.

## The system and what models it

| Part | Source (under `src/crates/arbordb/src`) | Modules |
|---|---|---|
| Version protocol: generation counter, version lock, snapshot capture | `db/inner.rs`, `table.rs`, `txn/read.rs`, `txn/write.rs` (commit), `db/database.rs` | `VersionedCache` |
| Shared caches: paths, blobs, inodes | `cache.rs`, `txn/read.rs` | `VersionedCache` |
| Directory tree and write-back buffer | `txn/context/*` | `ArborTree` |
| Write transactions, mutable cursors | `txn/write.rs`, `access/mut_cursor.rs` | `WriteTxn`, over `ArborTree` |
| What a write transaction promises its user | the docs of `WriteTxn`'s methods | `PathTree` (abstract) |
| Index maintenance and the `has_indexes` flag | `index/maintenance.rs`, `index/pattern.rs`, `table.rs` | `WriteTxn`, `Catalog` |
| Users, groups, sessions | `perm/*`, `db/database.rs` | `UserStore`, `Permissions` |
| ACLs, rights, seals, checked mutations | `acl.rs`, `perm/access.rs`, `inode/*`, `txn/context/*` | `Acl`, `SealedTree`, `Permissions` |
| Access times | `db/inner.rs`, `inode/functions.rs`, `db/database.rs` | `AccessTimes` |
| Scalars, documents, value and directory codecs | `data/scalar.rs`, `value.rs`, `codec/*` | `ByteOrder`, `Scalars`, `DocValue`, `Blob` |
| Typed data, derive macros, serde | `data/*`, `access/*`, `serde/*`, `arbordb-derive` | `TypedData`, `SerdeBlob`, `Documents` |
| What a typed document promises | the docs of the accessors | `TypedDocument` (abstract) |
| Paths, patterns, rooted views | `path/*`, `index/pattern.rs`, `txn/rooted/*` | `Paths`, `Catalog` |
| Index definitions, registry, ordered keys, scans, queries | `index/*`, `txn/query.rs` | `OrderedKeys`, `IndexRegistry`, `Catalog` |
| Bootstrap: format version, required features | `engine/*` | `Catalog` |
| Export | `export/*` | none: pure output |

The modules `MC*` instantiate them for TLC; `VersionedCacheProofs`,
`AccessTimesProofs`, `ArborTreeProofs`, `ArborPathProofs`, `WriteTxnProofs`,
`PermissionsProofs`, `SealProofs` and `ByteOrderProofs` hold the theorems.
`PROJECT.json` holds the full inventory, the line-by-line map from definitions to
code, the hazards each property is aimed at, and the findings.

### VersionedCache

Threads are `Reader`s and `Writer`s with a program counter each (`rpc`, `wpc`).

* `Table::read` is three steps: `ReadLock`, `BeginRead` (the engine's snapshot),
  `Capture` (the generation is loaded, the guard dropped). `Close` is `Drop`.
* A read is `Resolve` (path cache, else a walk), one `WalkHit` or
  `WalkMiss`/`WalkFetch` per directory, `Resolved` (the path is cached), then
  `LoadHit` or `LoadMiss`/`LoadFetch`, and `Return`. The lookup in a cache, the
  read of the engine and the insertion are not atomic together: other threads run
  between the miss and the fetch.
* `BeginWrite`, `Work`, `LockVersion`, `CommitLocked`, `Bump` are the phases of a
  commit under the version lock (`WriteTxn::commit`, `remove_user`,
  `flush_access_times`); `CommitUnlocked` is a commit without it (index creation,
  the permission store). `CommitFails` is a commit the engine refuses, `Abandon` a
  dropped transaction, `Crash` the end of the process followed by `ArborDb::open`:
  the content falls back to what is durable, the generation to 0, the caches are
  empty.
* What a transaction wrote is chosen from `Contents`. `Effect` says which tables
  each kind of transaction touches. LRU order is abstracted: a full cache may drop
  any of its entries. The engine is external.

`Meta` is the inode lookup the permission-checked walk starts from; the walk itself
is in `SealedTree`. The set of verified MACs is left out.

### ArborTree, WriteTxn and PathTree

`ArborTree` defines the layer `txn::context` as operators on a *store*: the
engine's data table with the transaction's `WriteBuffer` (buffered directories and
files, their two dirty flags, the buffering switch and the structural count). Each
mutation returns a store and how it ended. A key that `AKey::generate` draws is one
that nothing mentions; a mutation that finds none left ends in "full", a bound that
no action lets through.

`WriteTxn` runs transactions of an unrestricted handle one after the other. Each
call of the API is one action (the engine serialises writers, and a transaction's
calls come from one owner): the mutation, with the index maintenance that brackets
it. An error leaves what the code leaves: the rows deleted before a failing mutation
stay deleted, a unique violation leaves the rows inserted before it. Index creation
and deletion are other threads' transactions; the flag `has_indexes` is set by a
later step (`MarkHasIndex`). One index with one column is modelled; the column of a
value is the constant function `Column`, with `Null` for a value that lacks it.

`PathTree` is the abstract specification: a set of nodes, each a path, what is
there and an identity. A call has its documented effect or ends in an error without
one; a commit publishes what the transaction saw. `ImplementsPathTree` (module
`WriteTxnRefinement`) says that what reads through the buffer see (`Nodes`) behaves like this.

### Acl, UserStore, SealedTree and Permissions

`UserStore` has the permission store of `$metadata` as a value: users, groups, the
next ids, and what the control-plane MAC covers. Each operation of `perm::store`
yields the set of stores it may end with, empty for an error. `Acl` has the graded
rights, an inode's ACL and the two decisions of `perm::access`. `SealedTree` puts
them around `ArborTree`: what each mutation checks (`MayStore`, `MayRm`, `MayMv`,
...), how it stamps new inodes, what it reseals, and the checked and verified walk of
a read (`load`). `Permissions` composes them: handles acting for an unrestricted
opener, a guest or a session; promotion; every administrative call; write
transactions of a few calls with `chown`, `set_acl`, `add_group` and `del_group`.
Handles belong to threads that interleave. `remove_user` and the promotion read first
(`RemoveLists`, `PromoteLists`) and write in a later step, between which others act.

A session keeps the uid and the groups it had when it authenticated, as the code's
does. Keys, MACs and signatures are perfect: a seal is the pair of what it covers.

### AccessTimes

One step per critical section: a reader's own log (`Read`, `DropRead`), the
database's log (`deposit_access`), a commit that drains it inside its transaction
(`CommitDrains`, `CommitEnds`), a flush that drains it before its own begins
(`FlushDrains`, `FlushBegins`, `FlushEnds`), failures of each, and a crash. `seen`
and `kept` are history variables that no guard reads.

### ByteOrder, Scalars, DocValue, Blob, TypedData, SerdeBlob, TypedDocument, Documents

These have the bytes themselves. `Scalars` encodes and decodes leaves; `DocValue` is
the in-memory `Value` and its operations; `Blob` the archived layout of a document
and of a directory, its readers in place and the patch of a scalar of the same width.
`TypedData` is `AData`: for every shape of type (leaf, option, list, map, struct with
renamed, aliased, defaulted and flattened fields, enum of each representation with
aliased variants and the `other` catch-all) its `store`, `load` and direct encoder, as
the library and the derive macros define them; `SerdeBlob` the serde route, with every
type of map key. `Documents` is the life of one entry: stored by any
route, edited through the typed accessors and by value, read back after each call.
`TypedDocument` is the abstract specification: a value of the type, of which a call
changes the part it names and nothing else.

### OrderedKeys, Paths, IndexRegistry, Catalog

`OrderedKeys` has the order-preserving encoding of every scalar type, composite and
descending columns, the keys of `$index` and the prefix scan. `Paths` parses,
normalises and displays access paths, value paths and patterns. `IndexRegistry` has
the bytes of the registry and every operation on them, those that skip definitions
without decoding them included. `Catalog` composes them over the life of a database
file: builds of several versions and features open and close it, indexes come and go
on several tables, documents are stored and removed through rooted views, and queries
read the rows.

## Runs

| Run | Result | What it asks |
|---|---|---|
| `VersionedCacheData` | holds | one generation is one version; caches agree with every reader's snapshot; a read answers from its own snapshot |
| `VersionedCacheInodes` | holds | the same for cached inodes, over all commits that take the version lock, at any durability; a read that has begun ends |
| `VersionedCacheAclCommit` | violated | cached inodes, with the commits that rewrite `$inodes` without the version lock |
| `WriteTxnTree` | holds | buffered transactions, with an index that comes and goes so that buffering may end half-way: tree shape, cursor hints, the invariant `TreeInv` of the proof, refinement of `PathTree` |
| `WriteTxnIndex` | holds | the committed rows of an index, unique or not, are those of the committed table; a unique one keeps columns apart; the invariant `IndexInv` of the proof |
| `WriteTxnFlagRace` | violated | index in sync, with a writer between `create_index`'s commit and its flag |
| `WriteTxnMvUp` | violated | refinement, with `mv` onto an ancestor of its source |
| `Permissions` | holds | the store is well formed and someone can authenticate; no id comes back; ACLs name groups that exist; seals cover what they should but for removed groups; a removed user owns nothing; a call changes only what its principal may |
| `PermissionsStripGroup` | violated | no read reports tampering when nothing but the library wrote |
| `AccessTimes` | holds | times advance, are of accesses that happened, none is dropped but by a failure, and none revives an inode |
| `Documents` | holds | whichever route wrote a document, every way of reading agrees; `AData` and edits in place leave canonical bytes (serde lays children out in the order it visits them, and is only read back); a type without attributes reads the same through `AData` and serde; refinement of `TypedDocument` |
| `Catalog` | holds | queries are exact and in order for every type of column; `$index` has just the rows it should; the registry's bytes say what was registered; only capable builds open a file; views write under their root |

The violated ones are disagreements between the code and its own documentation;
`PROJECT.json` quotes both sides under `findings`. The passing runs leave those
inputs out, so that everything else is checked past them, and a few more inputs with
which the model, like the code, breaks the property asked about:

* `DropsOnError` in `WriteTxnIndex`: a client drops a transaction after an error
  (as `tests/cross_feature.rs` does). A `mv` or `cp` of a missing source fails after
  its bracket has deleted index rows (`txn/write.rs`, `reindex_around`); a commit
  after that leaves live entities without rows. The same run has no reopening: one
  that finds no index clears the flag, and the window of `WriteTxnFlagRace` is open
  again.
* `DirPath` of `WriteTxnIndex` has no path the pattern matches: `mkdir` is not
  bracketed, a unique row is deleted by its column alone, and a directory's column is
  Null, so removing a directory takes the row of a file whose column is Null.
* `Copies` has no copy onto an ancestor of the source: like `mv`, `cp` deletes the
  destination first, and then fails for want of the source.
* `DirPath` has no path a cursor is opened on: `read_verified` does not consult the
  buffered directories, and an edit through such a cursor replaces the directory.
* `Permissions` states `SealedButForRemovedGroups` where `PermissionsStripGroup`
  shows that plain sealing fails after `remove_group`.
* `Documents` has no option as an element of a list (`OptMut::set` removes, shifting
  the followers, before it stores), no option of an option and no untagged unit
  variant under an option (one null leaf stands for both), no map key `.` or `..`
  (`encode_node` writes it, `VPath::child_name` does not keep it), no flattened enum
  or map (an enum's `store` first removes its node, which is then the parent's), and
  no accessor kept past the removal of its entry by `MapMut::remove`.

Each restriction that hides a hazard is also listed with it in `PROJECT.json`.

### Bounds

* `VersionedCache`: two readers and two writers are the least with which a slow
  reader, a fast reader, a commit and a second commit overlap; one writer is enough
  for inodes, where the kinds of commit differ instead. `MaxGen` = 1 lets
  transactions of generations 0 and 1 be open at once (a crash starts again at 0).
  The caches hold one path and one blob, so that evictions happen on every walk. The
  three contents differ in a file's value and in which a-node a path leads to. In
  `VersionedCacheData` commits are durable at once, relaxed ones are in
  `VersionedCacheInodes`. The theorems lift these bounds.
* `WriteTxn`: paths of at most two names over two names, two values, three keys
  besides the root, `MaxRelinks` = 2 (`WriteTxnTree`) or 3 structural changes before
  a transaction's last call. That is a file or directory created, removed or moved
  away and another put in its place while a cursor is open, in one transaction or
  over several. Keys besides the root are interchangeable (SYMMETRY), and values
  where the column is the value. What no guard reads is left out of the state's
  identity (VIEW): `last`, and in `WriteTxnTree` the index rows, which only a unique
  index reads; TLC still checks the refinement on every step.
* `Permissions`: two handles, two users and two groups besides the built-in ones,
  ids up to `MaxId` = 3, `MaxCalls` = 2 calls in a transaction, and four starts that
  trade transactions for administrative commits (`left`): an unprotected file with
  two administrative acts and a transaction; a protected one with a transaction and
  an act, with three acts, with a transaction alone and the owners swapped. A
  removal that races one other act, and a group or user that goes while a session or
  an ACL still names it, need no more.
* `AccessTimes`: two readers, a writer and a flush on one a-node (the log treats keys
  apart), three ticks, which order a creation, an access and a later one.
* `Documents`: every shape of type, two or three payloads of each scalar type chosen
  at the extremes and at changes of width, lists and maps of at most `MaxLen` = 2.
  Three of the types have a past: a struct with a renamed and an added field, an enum
  (of each tagged representation) with renamed variants and one that is gone, and a
  struct that serde wrote as a longer tuple; documents of the old types are stored too.
  A float that is a key has its decimal text from a table (`FloatText`).
  All sequences of calls, since a document is finite.
* `Catalog`: one program for every two neighbours of a ladder of 43 scalars (signs,
  bytes 0 and 255, prefixes, changes of width, equal big floats of several
  spellings, special values), and programs that use the registry, the views and the
  builds. Three a-keys, index ids up to `IdMax` = 2, so that the counter reaches its
  end.

### Fairness

`ReadEnds` assumes weak fairness of `ReadStep`: the thread of a read that has begun
is scheduled. None of these steps waits for another thread. Nothing is assumed of
lock acquisition: `std::sync::RwLock` promises no order, so there is no claim that a
reader or a writer ever gets the version lock, nor that a writer commits. No other
property is a liveness property: what else the code does, it does within a call.

Deadlock is checked everywhere but in the two `Permissions` runs, whose bounded
transactions run out.

## Proofs

The theorems hold for every value of the constants, from the named ASSUMEs alone.

**VersionedCache** (`VersionedCacheProofs`; the root is a key, `None` is none of the
values it stands beside, paths are sequences of names):

* `VersionInvariant`: `Spec => []VersionInv`, the inductive invariant;
* `TypeCorrect`, `OneGenerationOneVersion`, `CachesCoherent`: the invariants
  `TypeOK`, `SameGenerationSameData` and `CacheCoherent` of `VersionedCacheData`;
* `ReadsAnswerOwnVersion`: `ReadsSeeSnapshot`, what a read answers, found or not, is
  what its path leads to in its own snapshot;
* `InodesCoherent`: `InodeCacheCoherent`, provided that no commit is of the kind
  `acl`, the one that rewrites inodes without the version lock; the run
  `VersionedCacheAclCommit` shows that the condition is needed.

Neither `SameGenerationSameData` nor `CacheCoherent` is inductive: they speak of
open readers, while a stale entry may be put by a reader that closes and be met by
one that opens later. `VersionInv` adds the link to the committed data: except
between an engine commit and its bump (`Settled`), a snapshot or a cache entry of the
current generation is the committed data (`SnapInv`, `EntryInv`); nothing is
labelled with a generation yet to come; a transaction that will commit without the
version lock left the data alone (`WorkInv`); the locks are held where the program
counters say (`LockInv`), so no reader is between its snapshot and its generation
while a commit is between its two steps; and a walk stands where its names lead in
its own snapshot (`WalkInv`). There is one lemma per action. For the inodes,
`InodeInv` is the same argument about `$inodes`: it takes in commits at any
durability, whose crash falls back to older inodes with empty caches.

**AccessTimes** (`AccessTimesProofs`; `MaxTime` is positive, `None` is no record):
`TimesInvariant` is the inductive invariant, and `TimesTypeCorrect`, `NoInodeRevived`,
`AccessesAreReal`, `NoAccessDropped` and `TimesNeverGoBack` are the run's properties. They are not
inductive because a commit or a flush holds a copy of the inodes and a drained batch
for several steps. `TimesInv` says what those copies are: a flush that has begun holds
the committed inodes with its batch applied, and no other write transaction is open
(`OneWrite`); a writer's copy is no earlier than what is committed and has the batch
in it (`WriterInv`); every time in a log or batch is of an access that happened to a
key in use (`LogInv`, `UsedInv`), so that a key drawn anew owes nothing; and what was
deposited is in some hand (`KeptInv`).

**WriteTxn** (`ArborTreeProofs`, `ArborPathProofs`, `WriteTxnProofs`), for any keys,
names, values, paths, pattern and column, any number of calls and transactions:

* `TreeInvariant`: `TreeInv` is inductive; `TreesStay`, `HintsSound`, `TxnTypes`:
  `TreeWellFormed`, `HintSound` and `TypeOK`. Their hypothesis `NoneUpward` says that no
  `mv` or `cp` is given a destination above its source: such a call deletes the source
  with the destination, which `WriteTxnMvUp` shows for `mv`;
* `IndexInvariant`: `IndexInv` is preserved by every step from `TreeInv`; `IndexStays`,
  `UniqueStays`: `IndexInSync` and `UniqueHolds`. Their hypothesis is `Careful`:
  `NoneUpward`; the index is there when the database is opened and is not both
  redefined and reopened, so that the flag never lags behind (`WriteTxnFlagRace` shows
  what happens otherwise); a transaction is given up after an error; and `mkdir` makes
  no directory that a unique index matches. The run's constants satisfy it.

The argument has four layers. `ArborTreeProofs` reduces a store to the table that a
flush would leave (`Seen`): every read is one of it (`Reads`, `Views`), every write one
to it, whatever the buffer holds, provided the buffer fits what it hides (`Buffered`).
That table is a tree (`IsTree`) if each link leads to a live entry, no two to the same,
and every live entry is under the root; a branch may be cut off, replaced, moved out of
itself or copied (`CutOff`, `Replace`, `Regraft`, `BranchCopy`). `ArborPathProofs` adds
the copy and the file hung under a name, and paths. By induction over a path, a tree has one path to each entry (`OnePath`), and what
is under an entry has a path that starts with its own (`PathUnder`). Then it has one
lemma per operation of `txn::context`, with the same three conclusions: the store stays
sound, it has counted a relink if any link changed (`Since`), and every path that is
not comparable with the call's leads where it led, to the same file (`Elsewhere`).
`WriteTxnProofs` draws the theorems: the second conclusion gives `HintSound`, the third
the index. There, `affected_entities` of a scope is shown to be what the matching paths
comparable with the scope lead to (`AffectedIs`, by induction over the levels of the
pattern); so the rows that `reindex_around` deletes and adds are those of the a-nodes
that the call may have changed, and the others' rows are still right (`Resynced`).

`IndexInSync` is not inductive: it speaks of committed rows. `IndexInv` says the same of
an open transaction that has not failed, and asks more of a unique index: each matched
a-node but the root, directories included, has a row, and no two the same column. A
unique row is deleted by its column alone, so a directory without a row, whose column
is Null, would take a file's row with it when it goes.

Assumed: the root is a key, `None` is neither a key nor an entry, a store or a kind of
entry (`RootAssumption`, `EntryAssumption`, `StoreAssumption`), paths are sequences of
names, and the pattern one of names and `Star` (`PathsAssumption`, `PatternAssumption`).

**Permissions** (`PermissionsProofs`): `StoreInvariant`,
`UsersWellFormed` and `NoIdReused`, the run's `StoreWellFormed` and `IdsNotReused`,
for any number of users, groups, handles, names, passwords and transactions.
There is a lemma for each operation of `perm::store`: from a well-formed
store it makes a well-formed one, in which every id below the counters was in use
before. Well-formedness alone is not inductive: an operation on an unprotected store
would break it, and so would the removal of the master. `StoreInv` adds that a handle
acts for someone only once the database is protected, that a promotion at work has a
password, and that a removal at work is not of the master: `remove_user` checks that
when it looks the user up, steps before it acts on it. Assumed: the database starts
as the program can leave one (`StartAssumption`, which TLC evaluates on the run's
starts), and no password is the mark for none (`PasswordAssumption`).

**Seals** (`SealProofs`, over `PermissionsProofs`): `AclGroups` and `SealsCover`, the
run's `AclGroupsExist` and `SealedButForRemovedGroups`, and their inductive invariant,
`SealInvariant`. Neither is inductive: a seal is left over an ACL as it was, while
groups go and others come, and a transaction works on a copy of the table that it only
seals again when it flushes. So `SealInv`, with `StoreInv`, adds that a seal covers the
entry and an ACL whose groups are below the store's counter, of which the present one
has those that are left (`WellSealed`); that inside a transaction this is so for every
a-node that is not buffered (`CtxInv`); that ACLs name groups of the store, and there
are none before the promotion (`InodesWithin`); and whom each handle acts for before and
after it (`HandleInv`). An id below the counter never comes back (`NoIdReused`), so a
group that only the seal names was removed. Assumed besides: ids go up to some `MaxId`,
`None` is neither an ACL nor a principal, rights are granted from `Rights`, and the
opener has a handle (`MaxIdAssumption`, `NoneAssumption`, `GrantAssumption`,
`HandleAssumption`).

**ByteOrder** (`ByteOrderProofs`), for byte strings of any length: the keys under a
prefix are an interval, so that a scan from the prefix to the first key without it
misses none (`PrefixIsARange`); if the encodings of a column are equal or none is a
prefix of another, rows compare column by column (`FirstColumnDecides`,
`RowsSortByColumns`); and complementing the bytes then reverses the order
(`DescendingReverses`). That the encoders meet this premise is what `Catalog` checks.
The lemmas these rest on say that the order is total (`BytesTotallyOrdered`) and that
behind an equal column the rest decides (`EqualColumnsDefer`).

Only model-checked:

* `ReadEnds`: liveness is out of the proof system's reach.
* What the encoders, blobs, paths and registries compute, and so all of `Documents` and
  `Catalog`: they are recursive definitions, and induction over data is out of its reach.
* The refinements of `PathTree` and `TypedDocument`.
* Of `Permissions`: `TypeOK`, `RemovedOwnNothing` and `Permitted`.

## Not modelled

* Export: it formats a value as text and changes nothing.
* The cryptographic primitives, key derivation and the wrapping of keys: external, and
  taken as perfect. The MAC and the signature of an entry are one seal. The set of
  verified MACs and the memos of a transaction remember what `SealedTree` recomputes.
* The engine: external. One write transaction at a time, atomic commits, snapshots,
  durability as asked for.
* In `Permissions`: unrestricted clones of the opener that outlive the promotion; the
  creation of a table between the listing of tables and the write that uses it (the
  one table is there from the start); clients that go on after an error; more than
  one reopening; the structural count that a cursor's hint is compared with (an
  edit always resolves its path). What only reads is placed between write
  transactions, which do not change what it reads (`Between`).
* Index rows of reaped values: `remove_user` does no index maintenance; ownership and
  rows are in different modules.
* In `AccessTimes`: a clock that goes back, and the bytes of an inode. A flush or a
  commit that fails loses what it drained, as in the code.
* In `Documents`: the attributes `skip`, `skip_store`, `skip_load`, `store_with` and
  `load_with`, the macros' own parsing, integers beyond 32 bits, reads of damaged
  bytes, a scalar read through serde by another type that would take it, and what is
  listed under the runs.
* In `Catalog`: transactions of several calls (they are `WriteTxn`'s), `mkdir`, `mv`
  and `cp` through a view, which delegate as `store` and `rm` do; of a promotion only
  the feature it requires; `F64` columns, whose code is that of `F32` at another
  width; column paths that were not parsed from text, for which `VPath::child_name`
  checks no reserved characters; reversed queries, which walk the same rows backwards.
  `create_indexes` is one transaction per index, each an action here; it promises
  nothing of the group.
* `ls` and the reading of a path's times: reads of what other modules check.
